---------------------------- MODULE Spec2Model ----------------------------
(***************************************************************************)
(* A model of the nanokv storage engine (storage/src): the write path of   *)
(* Storage::set_batch, flush_memtable, the minor compaction pool and its   *)
(* installer, the manifest log with its replay at start-up, and the read   *)
(* paths Storage::get and Storage::scan.                                   *)
(*                                                                         *)
(* User keys and values are small positive integers; the order of the      *)
(* integers stands for the lexicographic order of the key bytes.  An       *)
(* internal key is the triple (k, seq, del); it is ordered by k ascending  *)
(* and then by seq descending (key.rs, InternalKey::partial_cmp).          *)
(***************************************************************************)
EXTENDS Integers, Sequences, FiniteSets, TLC

\* ------------------------------------------------------------------ bounds

\* user keys are 1..MaxKey
MaxKey == 2
\* values are 1..MaxVal
MaxVal == 2
\* mutations in one write batch
MaxBatch == 2
\* sequence numbers Manifest::allocate_seq hands out in one behaviour
MaxSeq == 2
\* memtable / SST numbers handed out by allocate_sst_number are below this
MaxSstNum == 3
\* manifest log numbers are 1..MaxManifestNum
MaxManifestNum == 4
\* crashes and shutdowns in one behaviour
MaxRestarts == 2
\* calls of Manifest::snapshot in one behaviour
MaxSnapshots == 2
\* entries after which Memtable::full answers true (16 * 1024 in the source)
MemFullEntries == 2
\* how far the counter step_version may run ahead of the published SuperVersion
MaxSkew == 1

\* payload bytes of one log segment (SEGMENT_SIZE - 8 = 32760 in the source)
SegPayload == 2
\* bytes of a log entry are 1..MaxByte
MaxByte == 2
\* bytes in one log entry
MaxEntryLen == 4
\* calls of LogWriter::append in one behaviour
MaxRecords == 2
\* threads that call LogWriter::append
MaxAppenders == 2
\* segments of a log file given to the replayer
MaxSegments == 3
\* a value of a write batch may have this many bytes (10 MiB in the source)
ValueLimit == 2
\* user keys of the write batch codec have up to this many bytes
MaxKeyLen == 1
\* operations added to one WriteBatchBuilder
MaxOps == 2

\* ---------------------------------------------------- program constants

\* config.rs: minor_compaction_threads
MinorThreads == 4
\* manifest.rs MAX_LEVEL (8 in the source): a Version stores levels
\* 0..MAX_LEVEL and SnapshotTable walks levels 0..MAX_LEVEL-1
MAX_LEVEL == 2
FILE_STATE_USING == 0
FILE_STATE_PICKED == 1
FILE_STATE_DEPRECATED == 2

\* log/mod.rs: LogSegmentFlags
UNKNOWN == 0
FULL_FRAGMENT == 1
BEGIN_FRAGMENT == 2
CONTINUE_FRAGMENT == 3
LAST_FRAGMENT == 4

\* u64::MAX, as the greatest integer the model has
U64_MAX == 2147483647

\* KeyType
KeyTypeSet == 0
KeyTypeDel == 1

Keys == 1..MaxKey
Vals == 1..MaxVal
SstNums == 0..(MaxSstNum - 1)
ManNums == 1..MaxManifestNum
Levels == 0..(MAX_LEVEL - 1)
StoredLevels == 0..MAX_LEVEL

\* GetOption without a snapshot
NoSnap == -1
\* StorageError::KeyNotExist, as an entry and as a user-visible result
NoEntry == [k |-> 0, seq |-> 0, del |-> FALSE, v |-> 0]
KeyNotExist == 0

Max(a, b) == IF a >= b THEN a ELSE b
Min(a, b) == IF a <= b THEN a ELSE b

\* ------------------------------------------------------- internal keys

\* an order of internal keys with the sequence ascending too
InternalKeyLessAsc(a, b) == \/ a.k < b.k
                            \/ a.k = b.k /\ a.seq < b.seq

\* InternalKey::partial_cmp: user key ascending, then sequence descending
InternalKeyLess(a, b) == \/ a.k < b.k
                         \/ a.k = b.k /\ a.seq > b.seq

RECURSIVE SortEntries(_)
\* the iteration order of the skiplist that holds a memtable's entries
SortEntries(S) ==
  IF S = {} THEN << >>
  ELSE LET m == CHOOSE x \in S : \A y \in S \ {x} : ~InternalKeyLess(y, x)
       IN  <<m>> \o SortEntries(S \ {m})

\* std::ops::Bound
Included(val) == [kind |-> "Included", val |-> val]
Excluded(val) == [kind |-> "Excluded", val |-> val]
Unbounded == [kind |-> "Unbounded", val |-> 0]

\* LookupKeyValue::new_lookup: a key to search the skiplist with
new_lookup(key, seq) == [k |-> key, seq |-> seq]

\* an element is inside the bounds of OrderedSkipList::range
InsideRange(e, beg, end) ==
  /\ CASE beg.kind = "Included" -> ~InternalKeyLess(e, beg.val)
       [] beg.kind = "Excluded" -> InternalKeyLess(beg.val, e)
       [] OTHER -> TRUE
  /\ CASE end.kind = "Included" -> ~InternalKeyLess(end.val, e)
       [] end.kind = "Excluded" -> InternalKeyLess(e, end.val)
       [] OTHER -> TRUE

RECURSIVE SkipListRange(_, _, _)
\* OrderedSkipList::range over the elements s in their order
SkipListRange(s, beg, end) ==
  IF s = << >> THEN << >>
  ELSE (IF InsideRange(Head(s), beg, end) THEN <<Head(s)>> ELSE << >>)
       \o SkipListRange(Tail(s), beg, end)

RECURSIVE SnapshotFilter(_, _)
\* iter.filter(|entry| entry.seq() <= snapshot_seq); no filter without a snapshot
SnapshotFilter(s, snap) ==
  IF s = << >> THEN << >>
  ELSE (IF snap = NoSnap \/ Head(s).seq <= snap THEN <<Head(s)>> ELSE << >>)
       \o SnapshotFilter(Tail(s), snap)

RECURSIVE EqualFilterFrom(_, _)
EqualFilterFrom(s, last) ==
  IF s = << >> THEN << >>
  ELSE IF Head(s).k = last THEN EqualFilterFrom(Tail(s), last)
       ELSE <<Head(s)>> \o EqualFilterFrom(Tail(s), Head(s).k)

\* iterator.rs EqualFilter: drop an item whose user key equals the last one kept
EqualFilter(s) == EqualFilterFrom(s, 0)

\* ------------------------------------------------------------- memtable

\* Memtable::get: the range of the skiplist from (key, u64::MAX) to (key, 0),
\* the first element of it, or with a snapshot the first one of seq <= snapshot
MemtableGet(S, key, snap) ==
  LET range == SkipListRange(SortEntries(S), Included(new_lookup(key, U64_MAX)),
                             Included(new_lookup(key, 0)))
      found == SnapshotFilter(range, snap)
  IN  IF found = << >> THEN NoEntry ELSE Head(found)

\* Memtable::scan over a range of user keys given by two bounds
MemtableScanRange(S, beg, end, snap) ==
  LET b == CASE beg.kind = "Included" -> Included(new_lookup(beg.val, U64_MAX))
             [] beg.kind = "Excluded" -> Excluded(new_lookup(beg.val, 0))
             [] OTHER -> Unbounded
      e == CASE end.kind = "Included" -> Included(new_lookup(end.val, 0))
             [] end.kind = "Excluded" -> Excluded(new_lookup(end.val, U64_MAX))
             [] OTHER -> Unbounded
  IN  EqualFilter(SnapshotFilter(SkipListRange(SortEntries(S), b, e), snap))

\* Memtable::scan over the inclusive user-key range lo..hi
MemtableScan(S, lo, hi, snap) == MemtableScanRange(S, Included(lo), Included(hi), snap)

\* Memtable::full, with the entry threshold scaled down
MemtableFull(S) == Cardinality(S) >= MemFullEntries

\* Memtable::set_batch(batch, base_seq): mutation i of the batch gets base_seq + i
MemtableSetBatch(S, batch, base_seq) ==
  S \cup {[k |-> batch[i].k, seq |-> base_seq + (i - 1),
           del |-> batch[i].del, v |-> batch[i].v] : i \in 1..Len(batch)}

\* --------------------------------------------------------- binary search

RECURSIVE BoundLoop(_, _, _)
\* the loop shared by lower_bound and upper_bound; flags[i+1] says whether the
\* probe of index i moves base up (cmp == Less, resp. cmp != Greater)
BoundLoop(flags, base, size) ==
  IF size > 1
  THEN LET half == size \div 2
           mid  == base + half
       IN  BoundLoop(flags, IF flags[mid + 1] THEN mid ELSE base, size - half)
  ELSE base

\* RawSSTReaderInner::lower_bound and upper_bound, and superslice's
\* lower_bound_by, all the same branch-free search; the result is 0-based
BoundSearch(flags) ==
  IF Len(flags) = 0 THEN 0
  ELSE LET base == BoundLoop(flags, 0, Len(flags))
       IN  base + (IF flags[base + 1] THEN 1 ELSE 0)

\* a search that moves up on an equal key too
lower_bound_le(file, key) == BoundSearch([i \in 1..Len(file) |-> file[i].k <= key])

lower_bound(file, key) == BoundSearch([i \in 1..Len(file) |-> file[i].k < key])
upper_bound(file, key) == BoundSearch([i \in 1..Len(file) |-> file[i].k <= key])

\* ------------------------------------------------------------ raw SST

RECURSIVE RawSSTGetFrom(_, _, _, _)
RawSSTGetFrom(file, index, key, snap) ==
  IF index >= Len(file) THEN NoEntry
  ELSE LET e == file[index + 1]
       IN  IF e.k = key
           THEN IF snap = NoSnap \/ e.seq <= snap THEN e
                ELSE RawSSTGetFrom(file, index + 1, key, snap)
           ELSE NoEntry

\* RawSSTReader::get
RawSSTGet(file, key, snap) == RawSSTGetFrom(file, lower_bound(file, key), key, snap)

\* RawSSTReader::scan over the inclusive user-key range lo..hi
RawSSTScan(file, lo, hi, snap) ==
  LET beg == lower_bound(file, lo)
      end == upper_bound(file, hi)
  IN  EqualFilter(SnapshotFilter(SubSeq(file, beg + 1, end), snap))

SeqMin(s) == CHOOSE x \in {s[i] : i \in 1..Len(s)} : \A j \in 1..Len(s) : x <= s[j]
SeqMax(s) == CHOOSE x \in {s[i] : i \in 1..Len(s)} : \A j \in 1..Len(s) : x >= s[j]

\* RawSSTWriter::write: the FileMetaData of the file written from a non-empty
\* iterator; min is the first user key and max the last one
FileMetaData(number, file, level) ==
  [number  |-> number,
   min     |-> file[1].k,
   max     |-> file[Len(file)].k,
   min_ver |-> SeqMin([i \in 1..Len(file) |-> file[i].seq]),
   max_ver |-> SeqMax([i \in 1..Len(file) |-> file[i].seq]),
   keys    |-> Len(file),
   level   |-> level]

NoFile == [number |-> -1, min |-> 0, max |-> 0, min_ver |-> 0, max_ver |-> 0,
           keys |-> 0, level |-> 0]

\* ------------------------------------------------------- Run and Version

\* Run::new; the empty byte string is 0
RunNew == [files |-> << >>, min |-> 0, max |-> 0]

InsertAt(s, idx, x) == SubSeq(s, 1, idx) \o <<x>> \o SubSeq(s, idx + 1, Len(s))

\* Run::push
RunPush(run, sst) ==
  LET idx == BoundSearch([i \in 1..Len(run.files) |-> run.files[i].min < sst.max])
  IN  [files |-> IF idx >= Len(run.files) THEN Append(run.files, sst)
                 ELSE InsertAt(run.files, idx, sst),
       min   |-> IF run.min = 0 THEN sst.min ELSE Min(run.min, sst.min),
       max   |-> IF run.max = 0 THEN sst.max ELSE Max(run.max, sst.max)]

\* Run::binary_find_file
binary_find_file(run, key) ==
  IF run.min > key \/ run.max < key THEN NoFile
  ELSE LET idx == BoundSearch([i \in 1..Len(run.files) |-> run.files[i].max < key])
       IN  IF idx >= Len(run.files) THEN NoFile ELSE run.files[idx + 1]

\* Version::default: no run at any level
VersionDefault == [sst_files |-> [l \in StoredLevels |-> << >>]]

RECURSIVE Flatten(_)
Flatten(ss) == IF ss = << >> THEN << >> ELSE Head(ss) \o Flatten(Tail(ss))

Reverse(s) == [i \in 1..Len(s) |-> s[Len(s) + 1 - i]]

\* VersionLogSerializer::write: the metadata of every file, level by level,
\* run by run, with the run boundaries not recorded
VersionLogWrite(version) ==
  Flatten([l \in 1..(MAX_LEVEL + 1) |->
             Flatten([r \in 1..Len(version.sst_files[l - 1]) |->
                        version.sst_files[l - 1][r].files])])

\* ------------------------------------------------------------ VersionSet

\* VersionSet::default
VersionSetDefault ==
  [version |-> VersionDefault, last_seq |-> 0, last_sst_num |-> 0,
   last_manifest_num |-> 0, snapshot_versions |-> [s \in 0..MaxSeq |-> 0]]

\* VersionSet::current_snapshot_version: count one more reference on last_seq
current_snapshot_version(vset) ==
  [vset EXCEPT !.snapshot_versions[vset.last_seq] = @ + 1]

\* VersionSet::release_snapshot_version
release_snapshot_version(vset, ver) ==
  [vset EXCEPT !.snapshot_versions[ver] = IF @ > 0 THEN @ - 1 ELSE 0]

\* Manifest::oldest_snapshot_version: the first key of the map
\* snapshot_versions, u64::MAX when the map is empty
oldest_snapshot_version(vset) ==
  LET live == {s \in DOMAIN vset.snapshot_versions : vset.snapshot_versions[s] > 0}
  IN  IF live = {} THEN U64_MAX
      ELSE CHOOSE s \in live : \A o \in live : s <= o

RECURSIVE SumUpTo(_, _)
SumUpTo(f, n) == IF n < 0 THEN 0 ELSE f[n] + SumUpTo(f, n - 1)

\* the references the map snapshot_versions counts
SnapshotRefs(vset) == SumUpTo(vset.snapshot_versions, MaxSeq)

SSTAppended(meta) == [type |-> "SSTAppended", meta |-> meta]
NewRun(level) == [type |-> "NewRun", level |-> level]
VersionChanged(n) == [type |-> "VersionChanged", n |-> n]
SSTSequenceChanged(n) == [type |-> "SSTSequenceChanged", n |-> n]
ManifestSequenceChanged(n) == [type |-> "ManifestSequenceChanged", n |-> n]
Snapshot(version) == [type |-> "Snapshot", files |-> VersionLogWrite(version)]

\* VersionSet::add, the SSTAppended arm: push into the last run of the level
AddSSTAppended(version, meta) ==
  LET runs  == version.sst_files[meta.level]
      runs1 == IF runs = << >> THEN <<RunNew>> ELSE runs
      last  == Len(runs1)
  IN  [version EXCEPT !.sst_files[meta.level] =
         [runs1 EXCEPT ![last] = RunPush(runs1[last], meta)]]

\* VersionEdit::SSTRemove; std is the loop that the build's binary_search_by has
SSTRemove(number, std) == [type |-> "SSTRemove", number |-> number, std |-> std]

\* the file a Version holds under a number (Version::seq_map), or NoFile
SeqMapGet(version, number) ==
  LET all == VersionLogWrite(version)
  IN  IF \E i \in 1..Len(all) : all[i].number = number
      THEN all[CHOOSE i \in 1..Len(all) : all[i].number = number]
      ELSE NoFile

RECURSIVE BinarySearchLoop(_, _, _, _)
\* the loop of slice::binary_search_by over the numbers of the files of a
\* run: the index (from 0) of an equal element, or -1 for Err
BinarySearchLoop(files, number, left, right) ==
  IF left < right
  THEN LET mid == left + ((right - left) \div 2)
       IN  IF files[mid + 1].number < number
           THEN BinarySearchLoop(files, number, mid + 1, right)
           ELSE IF files[mid + 1].number > number
           THEN BinarySearchLoop(files, number, left, mid)
           ELSE mid
  ELSE -1

\* the two loops slice::binary_search_by has had in the standard library
StdLoops == {"three_way", "branch_free"}

\* run.files.binary_search_by(|f| f.meta.number.cmp(seq)): the index (from 0)
\* of the element found, or -1 for Err.  The three-way loop narrows
\* [left, right) and returns on Equal; the branch-free loop moves base up
\* unless the probe is Greater and compares once at the end.
binary_search_by(files, number, std) ==
  IF std = "three_way" THEN BinarySearchLoop(files, number, 0, Len(files))
  ELSE IF Len(files) = 0 THEN -1
  ELSE LET base == BoundLoop([i \in 1..Len(files) |-> files[i].number <= number],
                             0, Len(files))
       IN  IF files[base + 1].number = number THEN base ELSE -1

RemoveAt(s, i) == SubSeq(s, 1, i - 1) \o SubSeq(s, i + 1, Len(s))

\* VersionSet::add, the SSTRemove arm: the file is looked up in seq_map; the
\* runs of its level are searched in order, each by binary search on the file
\* number; the first run that answers Ok loses the file and, when it is left
\* empty, is dropped.  The min and max of the run stay as they are.
RemoveSST(version, number, std) ==
  LET fs    == SeqMapGet(version, number)
      runs  == version.sst_files[fs.level]
      found == {r \in 1..Len(runs) :
                  binary_search_by(runs[r].files, number, std) >= 0}
  IN  IF fs = NoFile \/ found = {} THEN version
      ELSE LET r     == CHOOSE x \in found : \A y \in found : x <= y
               index == binary_search_by(runs[r].files, number, std)
               left  == RemoveAt(runs[r].files, index + 1)
           IN  [version EXCEPT !.sst_files[fs.level] =
                  IF left = << >> THEN RemoveAt(runs, r)
                  ELSE [runs EXCEPT ![r].files = left]]

\* VersionSet::add.  The Snapshot arm pushes the decoded Version on the list
\* `current`, which no code reads, and leaves `version` as it is.
VersionSetAdd(vset, edit) ==
  CASE edit.type = "SSTAppended" ->
         [vset EXCEPT !.version = AddSSTAppended(vset.version, edit.meta)]
    [] edit.type = "SSTRemove" ->
         [vset EXCEPT !.version = RemoveSST(vset.version, edit.number, edit.std)]
    [] edit.type = "NewRun" ->
         [vset EXCEPT !.version.sst_files[edit.level] = Append(@, RunNew)]
    [] edit.type = "VersionChanged" -> [vset EXCEPT !.last_seq = edit.n]
    [] edit.type = "SSTSequenceChanged" -> [vset EXCEPT !.last_sst_num = edit.n]
    [] edit.type = "ManifestSequenceChanged" ->
         [vset EXCEPT !.last_manifest_num = edit.n]
    [] edit.type = "Snapshot" -> vset

\* the state of the loop of VersionLogSerializer::read: the Version built so
\* far, last_max (the empty sequence is None) and last_level
ReadStart == [entry |-> VersionDefault, last_max |-> << >>,
              last_level |-> MAX_LEVEL + 1]

\* VersionLogSerializer::read, one turn of its loop: a file starts a run
\* unless it is at the level of the file before it and its min is below the
\* max of that file
ReadMeta(st, meta) ==
  LET last_max == IF st.last_level # meta.level THEN << >> ELSE st.last_max
      new_run  == ~(last_max # << >> /\ meta.min < last_max[1])
      runs     == IF new_run THEN Append(st.entry.sst_files[meta.level], RunNew)
                  ELSE st.entry.sst_files[meta.level]
  IN  [entry      |-> [st.entry EXCEPT !.sst_files[meta.level] =
                         [runs EXCEPT ![Len(runs)] = RunPush(@, meta)]],
       last_max   |-> <<meta.max>>,
       last_level |-> meta.level]

RECURSIVE ReadFrom(_, _)
ReadFrom(st, metas) ==
  IF metas = << >> THEN st ELSE ReadFrom(ReadMeta(st, Head(metas)), Tail(metas))

\* VersionLogSerializer::read of files whose levels are below MAX_LEVEL; it
\* panics on a file at MAX_LEVEL
VersionLogRead(metas) == ReadFrom(ReadStart, metas).entry

\* FileStatistics::set_using: the store
set_using(state) == FILE_STATE_USING

\* FileStatistics::set_picked: compare_exchange(USING, PICKED)
set_picked(state) == IF state = FILE_STATE_USING THEN FILE_STATE_PICKED ELSE state

\* FileStatistics::set_deprecated: compare_exchange(PICKED, DEPRECATED)
set_deprecated(state) ==
  IF state = FILE_STATE_PICKED THEN FILE_STATE_DEPRECATED ELSE state

RECURSIVE ReplayFrom(_, _)
ReplayFrom(state, log) ==
  IF log = << >> THEN state
  ELSE ReplayFrom(VersionSetAdd(state, Head(log)), Tail(log))

\* Manifest::restore_from_wal: fold the edits of one log into a fresh VersionSet
Replay(log) == ReplayFrom(VersionSetDefault, log)

\* ------------------------------------------------------------ iterators

\* MergedItem::cmp: a is popped before b when its user key is smaller or,
\* for the same user key, its sequence is greater
MergedItemFirst(a, b) == \/ a.k < b.k
                         \/ a.k = b.k /\ a.seq > b.seq

RECURSIVE MergedIterFrom(_, _)
\* MergedIter::next repeated: the heap holds the head of every iterator that
\* is not exhausted; equal items are popped in the order of their iterators
MergedIterFrom(iters, last_key) ==
  LET live == {i \in 1..Len(iters) : iters[i] # << >>}
  IN  IF live = {} THEN << >>
      ELSE LET idx  == CHOOSE i \in live : \A j \in live \ {i} :
                          \/ MergedItemFirst(Head(iters[i]), Head(iters[j]))
                          \/ /\ ~MergedItemFirst(Head(iters[j]), Head(iters[i]))
                             /\ i < j
               item == Head(iters[idx])
               rest == [iters EXCEPT ![idx] = Tail(@)]
           IN  IF item.k = last_key THEN MergedIterFrom(rest, last_key)
               ELSE <<item>> \o MergedIterFrom(rest, item.k)

MergedIter(iters) == MergedIterFrom(iters, 0)

\* LevelIter: the iterators of the files of one run, one after the other
LevelIter(iters) == Flatten(iters)

RECURSIVE SelectSeq2(_, _)
SelectSeq2(s, keep) ==
  IF s = << >> THEN << >>
  ELSE (IF keep[1] THEN <<Head(s)>> ELSE << >>) \o SelectSeq2(Tail(s), Tail(keep))

\* ------------------------------------------------------------ Imemtables

\* Imemtables::push and Imemtables::remove; a frozen memtable is named by its number
ImemtablesPush(imemtables, number) == Append(imemtables, number)
ImemtablesRemove(imemtables, number) ==
  IF \E i \in 1..Len(imemtables) : imemtables[i] = number
  THEN LET idx == CHOOSE i \in 1..Len(imemtables) :
                    /\ imemtables[i] = number
                    /\ \A j \in 1..(i - 1) : imemtables[j] # number
       IN  SubSeq(imemtables, 1, idx - 1) \o SubSeq(imemtables, idx + 1, Len(imemtables))
  ELSE imemtables

RECURSIVE ImemtablesGetFrom(_, _, _, _)
ImemtablesGetFrom(mem, rev, key, snap) ==
  IF rev = << >> THEN NoEntry
  ELSE LET e == MemtableGet(mem[Head(rev)], key, snap)
       IN  IF e # NoEntry THEN e ELSE ImemtablesGetFrom(mem, Tail(rev), key, snap)

\* Imemtables::get: the frozen memtables, the one pushed last first
ImemtablesGet(mem, imemtables, key, snap) ==
  ImemtablesGetFrom(mem, Reverse(imemtables), key, snap)

\* Imemtables::scan
ImemtablesScan(mem, imemtables, lo, hi, snap) ==
  MergedIter([i \in 1..Len(imemtables) |->
                MemtableScan(mem[Reverse(imemtables)[i]], lo, hi, snap)])

\* --------------------------------------------------------- SnapshotTable

\* the runs in the order SnapshotTable visits them: level 0 first, and in a
\* level the run pushed last first
ProbeOrder(version) ==
  Flatten([l \in 1..MAX_LEVEL |-> Reverse(version.sst_files[l - 1])])

RECURSIVE SnapshotTableGetFrom(_, _, _, _, _)
SnapshotTableGetFrom(runs, files, key, snap, snapshot) ==
  IF runs = << >> THEN NoEntry
  ELSE LET fs == binary_find_file(Head(runs), key)
           e  == IF fs = NoFile \/ fs.min_ver > snapshot THEN NoEntry
                 ELSE RawSSTGet(files[fs.number], key, snap)
       IN  IF e # NoEntry THEN e
           ELSE SnapshotTableGetFrom(Tail(runs), files, key, snap, snapshot)

\* SnapshotTable::get; snap is the snapshot of the GetOption and snapshot
\* the one taken by Storage::get
SnapshotTableGet(version, files, key, snap, snapshot) ==
  SnapshotTableGetFrom(ProbeOrder(version), files, key, snap, snapshot)

\* the LevelIter of one run in SnapshotTable::scan
RunScan(run, files, lo, hi, snap, snapshot) ==
  LevelIter([i \in 1..Len(run.files) |->
               IF run.files[i].min_ver > snapshot THEN << >>
               ELSE RawSSTScan(files[run.files[i].number], lo, hi, snap)])

\* SnapshotTable::scan; a run whose files are all skipped adds no iterator
SnapshotTableScan(version, files, lo, hi, snap, snapshot) ==
  LET runs == ProbeOrder(version)
  IN  MergedIter(SelectSeq2(
        [i \in 1..Len(runs) |-> RunScan(runs[i], files, lo, hi, snap, snapshot)],
        [i \in 1..Len(runs) |->
           \E j \in 1..Len(runs[i].files) : runs[i].files[j].min_ver <= snapshot]))

\* ----------------------------------------------------------- Storage reads

\* the answer a tier gives to Storage::get_ex
Answer(e) == IF e.del THEN KeyNotExist ELSE e.v

\* Storage::get_ex: memtable, then frozen memtables, then the SSTs of the Version
get_ex(mem, files, sv, key, snap, snapshot) ==
  LET m == MemtableGet(mem[sv.cf_tables.memtable], key, snap)
      i == ImemtablesGet(mem, sv.cf_tables.imemtables, key, snap)
      s == SnapshotTableGet(sv.sst_version, files, key, snap, snapshot)
  IN  IF m # NoEntry THEN Answer(m)
      ELSE IF i # NoEntry THEN Answer(i)
      ELSE IF s # NoEntry THEN Answer(s)
      ELSE KeyNotExist

RECURSIVE DropDel(_)
DropDel(s) ==
  IF s = << >> THEN << >>
  ELSE (IF Head(s).del THEN << >> ELSE <<[k |-> Head(s).k, v |-> Head(s).v]>>)
       \o DropDel(Tail(s))

\* Storage::scan_ex: the memtables come from `tables`, the value loaded when
\* the scan is built, and the SSTs from the SuperVersion the caller passes
scan_ex(mem, files, loaded, sv, lo, hi, snap, snapshot) ==
  DropDel(MergedIter(<<
    MemtableScan(mem[loaded.memtable], lo, hi, snap),
    ImemtablesScan(mem, loaded.imemtables, lo, hi, snap),
    SnapshotTableScan(sv.sst_version, files, lo, hi, snap, snapshot) >>))

\* ------------------------------------------------------- log segments

\* SegmentWriter::crc_value: the checksum covers the flags, the reserved
\* byte, the length and the first `length` bytes of the payload.  CRC-32
\* tells apart any two inputs that differ in one byte, and crc_mask is
\* undone by crc_unmask, so the checksum stands for what it covers.
crc_value(flags, reserved, length, payload) ==
  <<flags, reserved, length, SubSeq(payload, 1, Min(length, Len(payload)))>>

\* SegmentWriter::flush_segment: one segment of the file
Segment(flags, payload) ==
  [whole |-> TRUE, crc |-> crc_value(flags, 0, Len(payload), payload),
   flags |-> flags, reserved |-> 0, length |-> Len(payload), payload |-> payload]

RECURSIVE SegmentWriterWrite(_, _)
\* SegmentWriter::write followed by flush_all: the segments of one record; a
\* full cache is flushed only when more bytes follow
SegmentWriterWrite(bytes, segment_index) ==
  IF Len(bytes) <= SegPayload
  THEN <<Segment(IF segment_index = 0 THEN FULL_FRAGMENT ELSE LAST_FRAGMENT, bytes)>>
  ELSE <<Segment(IF segment_index = 0 THEN BEGIN_FRAGMENT ELSE CONTINUE_FRAGMENT,
                 SubSeq(bytes, 1, SegPayload))>>
       \o SegmentWriterWrite(SubSeq(bytes, SegPayload + 1, Len(bytes)), segment_index + 1)

\* LogEntrySerializer for String, write: the length of the entry, one unit
\* here and four bytes in the source, and then its bytes
StringWrite(entry) == <<Len(entry)>> \o entry

\* SegmentReader::new
SegmentReaderNew(pos) ==
  [pos |-> pos, flags |-> UNKNOWN, done |-> FALSE, avail |-> << >>, got |-> << >>,
   acc |-> {}, err |-> "None"]

\* SegmentReader::pre_read on the segment after the pos segments consumed so
\* far.  A file that ends, a segment cut short and flags UNKNOWN are
\* UnexpectedEof; a length beyond the cache makes the slice handed to the
\* checksum panic.
pre_read(file, rd) ==
  IF rd.pos >= Len(file) THEN [rd EXCEPT !.err = "UnexpectedEof"]
  ELSE LET seg == file[rd.pos + 1]
           r1  == [rd EXCEPT !.pos = @ + 1]
       IN  IF ~seg.whole \/ seg.flags = UNKNOWN THEN [r1 EXCEPT !.err = "UnexpectedEof"]
           ELSE IF seg.length > SegPayload THEN [r1 EXCEPT !.err = "Panic"]
           ELSE IF seg.crc # crc_value(seg.flags, seg.reserved, seg.length, seg.payload)
                THEN [r1 EXCEPT !.err = "InvalidData"]
           ELSE IF rd.flags = FULL_FRAGMENT THEN [r1 EXCEPT !.err = "InvalidData"]
           ELSE IF /\ rd.flags \in {BEGIN_FRAGMENT, CONTINUE_FRAGMENT}
                   /\ seg.flags \notin {LAST_FRAGMENT, CONTINUE_FRAGMENT}
                THEN [r1 EXCEPT !.err = "InvalidData"]
           ELSE [r1 EXCEPT !.done = seg.flags \in {LAST_FRAGMENT, FULL_FRAGMENT},
                           !.flags = seg.flags,
                           !.avail = SubSeq(seg.payload, 1, seg.length),
                           !.acc = @ \cup {rd.pos + 1}]

RECURSIVE SegmentReaderRead(_, _, _)
\* Read::read_exact of `want` bytes on a SegmentReader
SegmentReaderRead(file, rd, want) ==
  IF rd.err # "None" \/ want = 0 THEN rd
  ELSE IF rd.avail = << >>
       THEN IF rd.done THEN [rd EXCEPT !.err = "UnexpectedEof"]
            ELSE SegmentReaderRead(file, pre_read(file, rd), want)
       ELSE SegmentReaderRead(file, [rd EXCEPT !.got = Append(@, Head(rd.avail)),
                                               !.avail = Tail(@)], want - 1)

\* LogEntrySerializer for String, read, on a new SegmentReader: the length
\* and then that many bytes
StringRead(file, pos) ==
  LET r1 == SegmentReaderRead(file, SegmentReaderNew(pos), 1)
  IN  IF r1.err # "None" THEN r1
      ELSE SegmentReaderRead(file, [r1 EXCEPT !.got = << >>], r1.got[1])

Appenders == 1..MaxAppenders
Bytes == 1..MaxByte
\* the entries appended: every length up to MaxEntryLen, neighbouring bytes
\* different so that a byte out of place changes the entry
Entries ==
  {e \in UNION {[1..n -> Bytes] : n \in 0..MaxEntryLen} :
     \A i \in 1..(Len(e) - 1) : e[i] # e[i + 1]}

AppenderIdle == [pc |-> "idle", entry |-> << >>, segs |-> << >>, written |-> 0]
ReplayerIdle == [pc |-> "idle", pos |-> 0, out |-> << >>, acc |-> {}, err_at |-> 0]

\* a segment of zeros, as a preallocated file has them, and a segment cut short
ZeroSegment == [whole |-> TRUE, crc |-> << >>, flags |-> UNKNOWN, reserved |-> 0,
                length |-> 0, payload |-> << >>]
ShortSegment == [ZeroSegment EXCEPT !.whole = FALSE]

\* the segments and the files the replayer is given
RawSegments ==
  {Segment(f, p) : f \in FULL_FRAGMENT..LAST_FRAGMENT,
                   p \in UNION {[1..n -> 0..1] : n \in 0..SegPayload}}
    \cup {ZeroSegment, ShortSegment}
SegmentFiles == UNION {[1..n -> RawSegments] : n \in 0..MaxSegments}


\* ------------------------------------------------------ write batch codec

RECURSIVE LE(_, _)
\* WriteBytesExt::write_u32::<LE> and write_u64::<LE>: n in w bytes, the least
\* significant byte first
LE(n, w) == IF w = 0 THEN << >> ELSE <<n % 256>> \o LE(n \div 256, w - 1)

RECURSIVE FromLE(_)
\* ReadBytesExt::read_u32::<LE> and read_u64::<LE>
FromLE(bytes) ==
  IF bytes = << >> THEN 0 ELSE Head(bytes) + 256 * FromLE(Tail(bytes))

\* Bytes::slice(from..to), offsets counted from 0
Slice(bytes, from, to) == SubSeq(bytes, from + 1, to)

\* InternalKey::new: the user key, then (type << 56) | (seq & 0xFFFF_FFFF_FFFF)
\* as a u64, least significant byte first
InternalKeyNew(user_key, seq, ty) == user_key \o LE(seq, 6) \o <<0, ty>>

\* InternalKey::key_type and user_key_slice
key_type(key) == key[Len(key)]
user_key_slice(key) == SubSeq(key, 1, Len(key) - 8)

\* WriteBatchBuilder::new: 16 bytes are kept for the header
WriteBatchBuilderNew == [bytes |-> LE(0, 8) \o LE(0, 8), total |-> 0, seq |-> 0]

\* a WriteBatchBuilder that refuses a value of ValueLimit bytes too
add_internal_ge(b, key, value) ==
  IF Len(value) >= ValueLimit
  THEN [ok |-> FALSE, builder |-> b]
  ELSE [ok |-> TRUE,
        builder |-> [b EXCEPT !.bytes = @ \o LE(Len(key) + Len(value), 4)
                                          \o LE(Len(key), 4) \o key \o value,
                              !.total = @ + 1]]

\* WriteBatchBuilder::add_internal
add_internal(b, key, value) ==
  IF Len(value) > ValueLimit
  THEN [ok |-> FALSE, builder |-> b]
  ELSE [ok |-> TRUE,
        builder |-> [b EXCEPT !.bytes = @ \o LE(Len(key) + Len(value), 4)
                                          \o LE(Len(key), 4) \o key \o value,
                              !.total = @ + 1]]

\* WriteBatchBuilder::set and WriteBatchBuilder::del
BuilderSet(b, key, value) == add_internal(b, InternalKeyNew(key, 0, KeyTypeSet), value)
BuilderDel(b, key) == add_internal(b, InternalKeyNew(key, 0, KeyTypeDel), << >>)

\* a build that leaves the 16 bytes of the header as new() wrote them
build_blank(b) == b

\* WriteBatchBuilder::build: total and seq are written into an array of 8
\* bytes, which has room for total only, and 8 bytes are copied over the start
\* of the header
build(b) ==
  [bytes |-> LE(b.total, 8) \o SubSeq(b.bytes, 9, Len(b.bytes)),
   total |-> b.total, seq |-> b.seq]

\* BatchIter::next at an offset: None when fewer than 8 bytes are left
BatchIterNext(batch, offset) ==
  LET bytes  == batch.bytes
      length == FromLE(Slice(bytes, offset, offset + 4))
      klen   == FromLE(Slice(bytes, offset + 4, offset + 8))
      from   == offset + 8
  IN  IF Len(bytes) - offset < 8
      THEN [res |-> "None", key |-> << >>, value |-> << >>, offset |-> offset]
      ELSE IF klen > length \/ from + length > Len(bytes)
      THEN [res |-> "Panic", key |-> << >>, value |-> << >>,
            offset |-> offset + length + 8]
      ELSE [res |-> "Some", key |-> Slice(bytes, from, from + klen),
            value |-> Slice(bytes, from + klen, from + length),
            offset |-> offset + length + 8]

\* BatchLogSerializer::write
BatchLogWrite(batch) == batch.bytes

RECURSIVE BatchLogReadFrom(_, _, _, _)
\* the loop of BatchLogSerializer::read over the records that are left
BatchLogReadFrom(bytes, pos, count, b) ==
  LET length == FromLE(Slice(bytes, pos, pos + 4))
      klen   == FromLE(Slice(bytes, pos + 4, pos + 8))
      full   == Slice(bytes, pos + 8, pos + 8 + length)
      added  == add_internal(b, Slice(full, 0, klen), Slice(full, klen, length))
  IN  IF count = 0 THEN [err |-> "None", builder |-> b]
      ELSE IF Len(bytes) < pos + 8 \/ Len(bytes) < pos + 8 + length
      THEN [err |-> "UnexpectedEof", builder |-> b]
      ELSE IF klen > length \/ ~added.ok
      THEN [err |-> "Panic", builder |-> b]
      ELSE BatchLogReadFrom(bytes, pos + 8 + length, count - 1, added.builder)

\* BatchLogSerializer::read
BatchLogRead(bytes) ==
  LET count == FromLE(Slice(bytes, 0, 8))
      seq   == FromLE(Slice(bytes, 8, 16))
      rd    == BatchLogReadFrom(bytes, 16, count, WriteBatchBuilderNew)
  IN  IF Len(bytes) < 16
      THEN [err |-> "UnexpectedEof", batch |-> build(WriteBatchBuilderNew)]
      ELSE [err |-> rd.err, batch |-> build([rd.builder EXCEPT !.seq = seq])]

UserKeys == UNION {[1..n -> Bytes] : n \in 0..MaxKeyLen}
\* values up to one byte longer than a builder takes
Values == {e \in Entries : Len(e) <= ValueLimit + 1}
NoBatch == [bytes |-> << >>, total |-> -1, seq |-> 0]
CodecIdle ==
  [pc |-> "idle", asked |-> << >>, builder |-> WriteBatchBuilderNew,
   batch |-> NoBatch, offset |-> 16, iter |-> "run", out |-> << >>,
   copy |-> NoBatch, copy_err |-> "None"]

\* ------------------------------------------------- tables to look up in

\* the versions a table may hold: one per user key and sequence
Versions == [k : Keys, seq : 0..MaxSeq, del : {FALSE}, v : Vals]
              \cup [k : Keys, seq : 0..MaxSeq, del : {TRUE}, v : {0}]
Tables ==
  {S \in SUBSET Versions : \A a, b \in S : (a.k = b.k /\ a.seq = b.seq) => a = b}
\* keys asked for: those a table may hold, one below and one above
QueryKeys == 0..(MaxKey + 1)
Bounds == {Unbounded} \cup {Included(k) : k \in Keys} \cup {Excluded(k) : k \in Keys}
\* two bounds that leave a range: the start not above the end, and both
\* inclusive when they name the same key
RangeBounds ==
  {r \in Bounds \X Bounds :
     (r[1].kind # "Unbounded" /\ r[2].kind # "Unbounded") =>
       \/ r[1].val < r[2].val
       \/ r[1].val = r[2].val /\ r[1].kind = "Included" /\ r[2].kind = "Included"}
LookupIdle(S) ==
  [table |-> S, op |-> "none", key |-> 0, snap |-> NoSnap, beg |-> Unbounded,
   end |-> Unbounded, res |-> << >>]

\* ------------------------------------------------------------------ state

VARIABLES
  status,         \* "up" once Storage::new has returned; "down" after a crash;
                  \* "created" and "restored" inside Manifest::new
  no_wal,         \* Config::no_wal
  wal_current,    \* LogInner::current of the write-ahead LogWriter
  wal_log,        \* the write-ahead log files on disk, by number
  mem,            \* the entries of the memtable with a given number
  super_version,  \* StorageInner::super_version; its cf_tables is StorageInner::tables
  step_version,   \* StorageInner::step_version, the counter
  panicked,       \* a thread of the engine has panicked
  vs,             \* Manifest::version_set
  manifest_seq,   \* Manifest::seq
  manifest_log,   \* the manifest log files on disk, by number
  manifest_files, \* the numbers of the manifest log files that exist
  current,        \* the number stored in manifest/current, 0 when it is absent
  sst,            \* the SST files on disk, by number
  tasks,          \* the minor compaction task of the memtable with a given number
  wr,             \* the thread inside Storage::set_batch
  held,           \* the SuperVersion a reader holds for Storage::scan
  user_snapshot,  \* the sequence of the SnapshotGuard the user holds
  lastGet,        \* the last Storage::get and its answer
  lastScan,       \* the last Storage::scan and what it yielded
  acked,          \* history: the mutations of the set_batch calls that returned Ok
  last_batch,     \* history: the mutations of the last set_batch that returned Ok
  allocated,      \* history: sequence numbers handed out since the first start
  installed,      \* history: the FileMetaData of every SSTAppended edit committed
  raced,          \* history: a memtable was frozen while set_batch was under way
  snap_view,      \* history: what every key held when user_snapshot was taken
  held_view,      \* history: what every key held when `held` was obtained
  rot,            \* the thread inside Storage::shutdown and Manifest::rotate
  restarts,       \* crashes and shutdowns so far
  seg_file,       \* the segments of the file a LogWriter writes
  log_lock,       \* the mutex LogWriter::inner is held
  writer,         \* the threads inside LogWriter::append
  appended,       \* history: the appends that have returned, in their order
  flipped,        \* history: the segment of which a byte was flipped, or 0
  replayer,       \* the loop over LogReplayer::iter and what it has yielded
  codec,          \* a WriteBatchBuilder, the WriteBatch built, and its readers
  lookup,         \* a memtable or the SST written from it, and one call on it
  flusher,        \* the thread inside Storage::flush_memtable, lock by lock
  reader,         \* the thread inside StorageInner::super_version
  synced,         \* the records of the manifest log that LogWriter::sync has covered
  applied,        \* history: the edits VersionSet::add was called with, in order
  editor,         \* a Version under edit, the state of its files, and the last call
  major           \* the thread of the major pool inside major_compaction

vars == <<status, no_wal, wal_current, wal_log, mem, super_version,
          step_version, panicked, vs, manifest_seq, manifest_log,
          manifest_files, current, sst, tasks, wr, held, user_snapshot,
          lastGet, lastScan, acked, last_batch, allocated, installed, raced,
          snap_view, held_view, rot, restarts, seg_file, log_lock, writer,
          appended, flipped, replayer, codec, lookup, flusher, reader,
          synced, applied, editor, major>>

Mutations == [k : Keys, del : {FALSE}, v : Vals] \cup [k : Keys, del : {TRUE}, v : {0}]
Batches == UNION {[1..n -> Mutations] : n \in 1..MaxBatch}

WriterIdle == [pc |-> "idle", memtable |-> 0, batch |-> << >>, seq |-> 0, fsync |-> FALSE]
NoSV == [cf_tables |-> [memtable |-> -1, imemtables |-> << >>],
         sst_version |-> VersionDefault, step_version |-> 0]
NoGet == [valid |-> FALSE, k |-> 0, snap |-> NoSnap, res |-> 0]
NoScan == [valid |-> FALSE, lo |-> 0, hi |-> 0, snap |-> NoSnap, res |-> << >>]
NoView == [k \in Keys |-> KeyNotExist]
\* Version::default, no FileStatistics made yet, and no call made
EditorIdle ==
  [version |-> VersionDefault, created |-> {},
   state |-> [n \in SstNums |-> FILE_STATE_USING],
   checkpoint |-> VersionDefault,
   last |-> [op |-> "none", number |-> 0, before |-> VersionDefault,
             was |-> FILE_STATE_USING, ok |-> TRUE]]

\* CompactInfo::default, and no task under way
MajorIdle == [pc |-> "idle", compact_bottom |-> << >>, compact_top |-> << >>,
              level_top |-> 0, number |-> 0]

RotIdle == [pc |-> "idle", old_seq |-> 0]

\* StorageInner::tables, stored together with super_version
tables == super_version.cf_tables

\* Manifest::commit: append the edit to the log the manifest writes and sync
Commit(log, edit) == [log EXCEPT ![manifest_seq] = Append(@, edit)]

\* an acknowledged mutation is newer than another one when it was written in
\* a later run of the engine or, in the same run, with a greater sequence
Newer(a, b) == a.epoch > b.epoch \/ (a.epoch = b.epoch /\ a.seq > b.seq)

Newest(c) == CHOOSE e \in c : \A o \in c \ {e} : Newer(e, o)

\* what get(k) must answer under snapshot s by the acknowledged history
Expected(k, s) ==
  LET c == {e \in acked : e.k = k /\ (s = NoSnap \/ e.seq <= s)}
  IN  IF c = {} THEN KeyNotExist ELSE Answer(Newest(c))

\* Storage::new on an empty directory: Manifest::new creates manifest log 1
\* and points current at it, and the first memtable gets number 0
EngineInit ==
  /\ status = "up"
  /\ codec = CodecIdle
  /\ no_wal \in BOOLEAN
  /\ wal_current = "None"
  /\ wal_log = << >>
  /\ mem = [n \in SstNums |-> {}]
  /\ super_version = [cf_tables |-> [memtable |-> 0, imemtables |-> << >>],
                      sst_version |-> VersionDefault, step_version |-> 0]
  /\ step_version = 0
  /\ panicked = FALSE
  /\ vs = [VersionSetDefault EXCEPT !.last_sst_num = 1, !.last_manifest_num = 2]
  /\ manifest_seq = 1
  /\ manifest_log = [n \in ManNums |-> IF n = 1 THEN <<SSTSequenceChanged(1)>> ELSE << >>]
  /\ manifest_files = {1}
  /\ current = 1
  /\ sst = [n \in SstNums |-> << >>]
  /\ tasks = [n \in SstNums |-> "none"]
  /\ wr = WriterIdle
  /\ held = NoSV
  /\ user_snapshot = NoSnap
  /\ lastGet = NoGet
  /\ lastScan = NoScan
  /\ acked = {}
  /\ last_batch = {}
  /\ allocated = 0
  /\ installed = {}
  /\ raced = FALSE
  /\ snap_view = NoView
  /\ held_view = NoView
  /\ rot = RotIdle
  /\ restarts = 0
  /\ flusher = "idle"
  /\ reader = "idle"
  /\ synced = 1
  /\ applied = <<SSTSequenceChanged(1)>>
  /\ editor = EditorIdle
  /\ major = MajorIdle

\* LogWriter::rotate has created an empty file and no thread is in append
LogInit ==
  /\ seg_file = << >>
  /\ log_lock = FALSE
  /\ writer = [a \in Appenders |-> AppenderIdle]
  /\ appended = << >>
  /\ flipped = 0
  /\ replayer = ReplayerIdle

Init == EngineInit /\ LogInit /\ lookup = LookupIdle({})

InitWal == EngineInit /\ no_wal = FALSE /\ LogInit /\ lookup = LookupIdle({})

\* a memtable of any versions, and the SST a minor compaction writes from it
InitLookup ==
  /\ EngineInit
  /\ no_wal = TRUE
  /\ LogInit
  /\ \E S \in Tables : lookup = LookupIdle(S)

\* a file of up to MaxSegments segments, each with the checksum of its
\* contents, that may end in zeros or in a segment cut short
InitReplay ==
  /\ EngineInit
  /\ no_wal = FALSE
  /\ log_lock = FALSE
  /\ writer = [a \in Appenders |-> AppenderIdle]
  /\ appended = << >>
  /\ flipped = 0
  /\ replayer = ReplayerIdle
  /\ seg_file \in SegmentFiles
  /\ lookup = LookupIdle({})

Running == status = "up" /\ ~panicked

\* the engine takes calls: Storage::shutdown runs in Drop, after the last call
Serving == Running /\ rot.pc = "idle"

ResetReads == lastGet' = NoGet /\ lastScan' = NoScan

\* ------------------------------------------------------------ write path

\* Storage::flush_memtable on the memtables memNow, under the SuperVersion
\* lock: modify_super_version_opt adds one to the counter before it runs the
\* closure; the closure freezes a non-empty memtable; the assertion compares
\* the old counter with the step of the SuperVersion that was loaded
flush_memtable(memNow) ==
  LET sv         == super_version
      old_table  == sv.cf_tables.memtable
      new_number == vs.last_sst_num
      edit       == SSTSequenceChanged(vs.last_sst_num + 1)
  IN  /\ step_version' = step_version + 1
      /\ IF memNow[old_table] # {}
         THEN /\ manifest_log' = Commit(manifest_log, edit)
              /\ vs' = VersionSetAdd(vs, edit)
              /\ mem' = [memNow EXCEPT ![new_number] = {}]
              /\ tasks' = [tasks EXCEPT ![old_table] = "queued"]
              /\ IF step_version = sv.step_version
                 THEN /\ super_version' =
                           [cf_tables |->
                              [memtable |-> new_number,
                               imemtables |->
                                 ImemtablesPush(sv.cf_tables.imemtables, old_table)],
                            sst_version |-> sv.sst_version,
                            step_version |-> sv.step_version + 1]
                      /\ panicked' = panicked
                 ELSE /\ super_version' = super_version
                      /\ panicked' = TRUE
         ELSE /\ mem' = memNow
              /\ UNCHANGED <<manifest_log, vs, tasks, super_version, panicked>>

\* the numbers of the model suffice for flush_memtable on memNow
FlushInBounds(memNow) ==
  IF memNow[super_version.cf_tables.memtable] # {}
  THEN vs.last_sst_num < MaxSstNum
  ELSE step_version - super_version.step_version < MaxSkew

\* Storage::set_batch up to Manifest::allocate_seq: load `tables`, take
\* batch.count() sequence numbers
SetBatchBegin(batch, fsync) ==
  /\ Serving
  /\ wr.pc = "idle"
  /\ allocated + Len(batch) <= MaxSeq
  /\ wr' = [pc |-> "loaded", memtable |-> tables.memtable, batch |-> batch,
            seq |-> vs.last_seq, fsync |-> fsync]
  /\ vs' = [vs EXCEPT !.last_seq = @ + Len(batch)]
  /\ allocated' = allocated + Len(batch)
  /\ ResetReads
  /\ UNCHANGED <<status, no_wal, wal_current, wal_log, mem, super_version,
                 step_version, panicked, manifest_seq, manifest_log,
                 manifest_files, current, sst, tasks, held, user_snapshot,
                 acked, last_batch, installed, raced, snap_view, held_view,
                 rot, restarts, seg_file, log_lock, writer, appended,
                 flipped, replayer, lookup, flusher, reader, synced, applied,
                 editor, major>>

\* the mutations of the batch the writer holds, as the history records them
Acknowledged ==
  {[k |-> wr.batch[i].k, seq |-> wr.seq + (i - 1), del |-> wr.batch[i].del,
    v |-> wr.batch[i].v, epoch |-> restarts, fsync |-> wr.fsync] :
     i \in 1..Len(wr.batch)}

\* Storage::set_batch from the append to the write-ahead log on: the append
\* fails when the LogWriter has no file; otherwise the batch goes into the
\* memtable that was loaded, and a full memtable is flushed
SetBatchFinish ==
  /\ Serving
  /\ wr.pc = "loaded"
  /\ wr' = WriterIdle
  /\ ResetReads
  /\ IF ~no_wal /\ wal_current = "None"
     THEN UNCHANGED <<wal_log, mem, super_version, step_version, panicked, vs,
                      manifest_log, tasks, acked, last_batch>>
     ELSE LET memNow == [mem EXCEPT ![wr.memtable] =
                           MemtableSetBatch(@, wr.batch, wr.seq)]
          IN  /\ wal_log' = IF no_wal THEN wal_log
                            ELSE [wal_log EXCEPT ![wal_current] = Append(@, wr.batch)]
              /\ IF MemtableFull(memNow[wr.memtable])
                 THEN FlushInBounds(memNow) /\ flush_memtable(memNow)
                 ELSE /\ mem' = memNow
                      /\ UNCHANGED <<super_version, step_version, panicked, vs,
                                     manifest_log, tasks>>
              /\ acked' = IF panicked' THEN acked ELSE acked \cup Acknowledged
              /\ last_batch' = IF panicked' THEN last_batch ELSE Acknowledged
  /\ UNCHANGED <<status, no_wal, wal_current, manifest_seq, manifest_files,
                 current, sst, held, user_snapshot, allocated, installed,
                 raced, snap_view, held_view, rot, restarts, seg_file,
                 log_lock, writer, appended, flipped, replayer, codec,
                 lookup, flusher, reader, synced, applied, editor, major>>

\* Storage::flush_memtable called on its own
FlushMemtable ==
  /\ Serving
  /\ FlushInBounds(mem)
  /\ flush_memtable(mem)
  /\ raced' = (raced \/ (wr.pc = "loaded" /\ mem[tables.memtable] # {}))
  /\ ResetReads
  /\ UNCHANGED <<status, no_wal, wal_current, wal_log, manifest_seq,
                 manifest_files, current, sst, wr, held, user_snapshot,
                 acked, last_batch, allocated, installed, snap_view,
                 held_view, rot, restarts, seg_file, log_lock, writer,
                 appended, flipped, replayer, codec, lookup, flusher, reader,
                 synced, applied, editor, major>>

\* ------------------------------------------------------- minor compaction

\* the pool threads that are inside minor_compaction
Busy ==
  {n \in SstNums : tasks[n] \in {"written", "nr_appended", "nr_synced", "newrun",
                                 "sa_appended", "sa_synced", "appended"}}

\* minor_compaction up to the call of the installer: a pool thread takes the
\* task and writes the entries of the memtable, in order, to the SST file
\* that has the number of the memtable
MinorWrite(n) ==
  /\ Running
  /\ tasks[n] = "queued"
  /\ Cardinality(Busy) < MinorThreads
  /\ sst' = [sst EXCEPT ![n] = SortEntries(mem[n])]
  /\ tasks' = [tasks EXCEPT ![n] = "written"]
  /\ ResetReads
  /\ UNCHANGED <<status, no_wal, wal_current, wal_log, mem, super_version,
                 step_version, panicked, vs, manifest_seq, manifest_log,
                 manifest_files, current, wr, held, user_snapshot, acked,
                 last_batch, allocated, installed, raced, snap_view,
                 held_view, rot, restarts, seg_file, log_lock, writer,
                 appended, flipped, replayer, codec, lookup, flusher, reader,
                 synced, applied, editor, major>>

\* Manifest::add_sst_with(meta, true, f), its first critical section: commit
\* NewRun(level) and add it to the VersionSet
MinorNewRun(n) ==
  /\ Running
  /\ tasks[n] = "written"
  /\ manifest_log' = Commit(manifest_log, NewRun(0))
  /\ vs' = VersionSetAdd(vs, NewRun(0))
  /\ tasks' = [tasks EXCEPT ![n] = "newrun"]
  /\ ResetReads
  /\ UNCHANGED <<status, no_wal, wal_current, wal_log, mem, super_version,
                 step_version, panicked, manifest_seq, manifest_files,
                 current, sst, wr, held, user_snapshot, acked, last_batch,
                 allocated, installed, raced, snap_view, held_view, rot,
                 restarts, seg_file, log_lock, writer, appended, flipped,
                 replayer, codec, lookup, flusher, reader, synced, applied,
                 editor, major>>

\* the installer of the minor pool with a stale Version: the SuperVersion keeps
\* the Version it had
InstallerSuperVersionStale(sv, number, cur) ==
  [cf_tables |-> [memtable |-> sv.cf_tables.memtable,
                  imemtables |-> ImemtablesRemove(sv.cf_tables.imemtables, number)],
   sst_version |-> sv.sst_version,
   step_version |-> sv.step_version + 1]

\* the closure the installer of the minor pool passes to modify_super_version:
\* the frozen memtable taken off the list and the Version add_sst_with hands over
InstallerSuperVersion(sv, number, cur) ==
  [cf_tables |-> [memtable |-> sv.cf_tables.memtable,
                  imemtables |-> ImemtablesRemove(sv.cf_tables.imemtables, number)],
   sst_version |-> cur,
   step_version |-> sv.step_version + 1]

\* Manifest::add_sst_with, its second critical section: commit SSTAppended,
\* add it, and run the installer on the new Version.  The installer is
\* modify_super_version: one more on the counter, the frozen memtable taken
\* off the list, the new Version, and the assertion on the step.
MinorInstall(n) ==
  LET meta == FileMetaData(n, sst[n], 0)
      edit == SSTAppended(meta)
      sv   == super_version
  IN  /\ Running
      /\ tasks[n] = "newrun"
      /\ manifest_log' = Commit(manifest_log, edit)
      /\ vs' = VersionSetAdd(vs, edit)
      /\ installed' = installed \cup {meta}
      /\ step_version' = step_version + 1
      /\ IF step_version = sv.step_version
         THEN /\ super_version' = InstallerSuperVersion(sv, n, vs'.version)
              /\ panicked' = panicked
         ELSE /\ super_version' = super_version
              /\ panicked' = TRUE
      /\ tasks' = [tasks EXCEPT ![n] = "done"]
      /\ ResetReads
      /\ UNCHANGED <<status, no_wal, wal_current, wal_log, mem, manifest_seq,
                     manifest_files, current, sst, wr, held, user_snapshot,
                     acked, last_batch, allocated, raced, snap_view,
                     held_view, rot, restarts, seg_file, log_lock, writer,
                     appended, flipped, replayer, codec, lookup, flusher,
                     reader, synced, applied, editor, major>>

\* -------------------------------------------------------------- read path

\* the snapshot a read may pass in its GetOption
SnapOptions == {NoSnap} \cup (IF user_snapshot = NoSnap THEN {} ELSE {user_snapshot})

\* StorageInner::super_version returns only when the published SuperVersion
\* carries the step of the counter; otherwise it takes the lock and tries again
SuperVersionReturns == super_version.step_version = step_version

\* what every key holds by the acknowledged history, or -1 for every key
\* when a set_batch is under way or has raced with a flush
View == [k \in Keys |-> IF wr.pc = "idle" /\ ~raced THEN Expected(k, NoSnap) ELSE -1]

\* Manifest::new_snapshot: the guard the user keeps pins VersionSet::last_seq
TakeSnapshot ==
  /\ Serving
  /\ user_snapshot = NoSnap
  /\ SnapshotRefs(vs) < MaxSnapshots
  /\ user_snapshot' = vs.last_seq
  /\ vs' = current_snapshot_version(vs)
  /\ snap_view' = View
  /\ ResetReads
  /\ UNCHANGED <<status, no_wal, wal_current, wal_log, mem, super_version,
                 step_version, panicked, manifest_seq, manifest_log,
                 manifest_files, current, sst, tasks, wr, held, acked,
                 last_batch, allocated, installed, raced, held_view, rot,
                 restarts, seg_file, log_lock, writer, appended, flipped,
                 replayer, codec, lookup, flusher, reader, synced, applied,
                 editor, major>>

\* SnapshotGuard::drop
ReleaseSnapshot ==
  /\ Serving
  /\ user_snapshot # NoSnap
  /\ vs' = release_snapshot_version(vs, user_snapshot)
  /\ user_snapshot' = NoSnap
  /\ snap_view' = NoView
  /\ ResetReads
  /\ UNCHANGED <<status, no_wal, wal_current, wal_log, mem, super_version,
                 step_version, panicked, manifest_seq, manifest_log,
                 manifest_files, current, sst, tasks, wr, held, acked,
                 last_batch, allocated, installed, raced, held_view, rot,
                 restarts, seg_file, log_lock, writer, appended, flipped,
                 replayer, codec, lookup, flusher, reader, synced, applied,
                 editor, major>>

\* Storage::get: the current SuperVersion, a snapshot from the manifest, get_ex
Get(key, snap) ==
  /\ Serving
  /\ SuperVersionReturns
  /\ SnapshotRefs(vs) < MaxSnapshots
  /\ vs' = current_snapshot_version(vs)
  /\ lastGet' = [valid |-> TRUE, k |-> key, snap |-> snap,
                 res |-> get_ex(mem, sst, super_version, key, snap, vs.last_seq)]
  /\ lastScan' = NoScan
  /\ UNCHANGED <<status, no_wal, wal_current, wal_log, mem, super_version,
                 step_version, panicked, manifest_seq, manifest_log,
                 manifest_files, current, sst, tasks, wr, held,
                 user_snapshot, acked, last_batch, allocated, installed,
                 raced, snap_view, held_view, rot, restarts, seg_file,
                 log_lock, writer, appended, flipped, replayer, codec,
                 lookup, flusher, reader, synced, applied, editor, major>>

\* Storage::super_version called by a reader that is going to scan
AcquireSuperVersion ==
  /\ Serving
  /\ SuperVersionReturns
  /\ held = NoSV
  /\ held' = super_version
  /\ held_view' = View
  /\ ResetReads
  /\ UNCHANGED <<status, no_wal, wal_current, wal_log, mem, super_version,
                 step_version, panicked, vs, manifest_seq, manifest_log,
                 manifest_files, current, sst, tasks, wr, user_snapshot,
                 acked, last_batch, allocated, installed, raced, snap_view,
                 rot, restarts, seg_file, log_lock, writer, appended,
                 flipped, replayer, codec, lookup, flusher, reader, synced,
                 applied, editor, major>>

\* the reader drops the SuperVersion it holds
ReleaseSuperVersion ==
  /\ Serving
  /\ held # NoSV
  /\ held' = NoSV
  /\ held_view' = NoView
  /\ ResetReads
  /\ UNCHANGED <<status, no_wal, wal_current, wal_log, mem, super_version,
                 step_version, panicked, vs, manifest_seq, manifest_log,
                 manifest_files, current, sst, tasks, wr, user_snapshot,
                 acked, last_batch, allocated, installed, raced, snap_view,
                 rot, restarts, seg_file, log_lock, writer, appended,
                 flipped, replayer, codec, lookup, flusher, reader, synced,
                 applied, editor, major>>

\* Storage::scan over lo..hi with the SuperVersion the reader holds
Scan(lo, hi, snap) ==
  /\ Serving
  /\ held # NoSV
  /\ SnapshotRefs(vs) < MaxSnapshots
  /\ vs' = current_snapshot_version(vs)
  /\ lastScan' = [valid |-> TRUE, lo |-> lo, hi |-> hi, snap |-> snap,
                  res |-> scan_ex(mem, sst, tables, held, lo, hi, snap, vs.last_seq)]
  /\ lastGet' = NoGet
  /\ UNCHANGED <<status, no_wal, wal_current, wal_log, mem, super_version,
                 step_version, panicked, manifest_seq, manifest_log,
                 manifest_files, current, sst, tasks, wr, held,
                 user_snapshot, acked, last_batch, allocated, installed,
                 raced, snap_view, held_view, rot, restarts, seg_file,
                 log_lock, writer, appended, flipped, replayer, codec,
                 lookup, flusher, reader, synced, applied, editor, major>>

\* what the end of the process takes away: everything that is not a file
LoseMemory ==
  /\ mem' = [n \in SstNums |-> {}]
  /\ super_version' = NoSV
  /\ step_version' = 0
  /\ panicked' = FALSE
  /\ vs' = VersionSetDefault
  /\ manifest_seq' = 0
  /\ tasks' = [n \in SstNums |-> "none"]
  /\ wr' = WriterIdle
  /\ held' = NoSV
  /\ user_snapshot' = NoSnap
  /\ snap_view' = NoView
  /\ held_view' = NoView
  /\ rot' = RotIdle

\* ---------------------------------------- shutdown and manifest rotation

\* Storage::shutdown, from Drop, its first step: flush_memtable.  The Storage
\* is borrowed by nobody: no writer is inside set_batch, no reader holds a
\* SuperVersion and the user holds no SnapshotGuard.
ShutdownFlush ==
  /\ Serving
  /\ wr.pc = "idle"
  /\ held = NoSV
  /\ user_snapshot = NoSnap
  /\ restarts < MaxRestarts
  /\ FlushInBounds(mem)
  /\ flush_memtable(mem)
  /\ rot' = [rot EXCEPT !.pc = "flushed"]
  /\ ResetReads
  /\ UNCHANGED <<status, no_wal, wal_current, wal_log, manifest_seq,
                 manifest_files, current, sst, wr, held, user_snapshot,
                 acked, last_batch, allocated, installed, raced, snap_view,
                 held_view, restarts, seg_file, log_lock, writer, appended,
                 flipped, replayer, codec, lookup, flusher, reader, synced,
                 applied, editor, major>>

\* Storage::shutdown after flush_wait_imemtables has seen an empty frozen list
\* and MinorCompactionTaskPool::stop has joined the pool: Manifest::flush,
\* which is Manifest::rotate.  Its first block, under the lock of the log
\* writer: take a manifest number, finish the old log with the three
\* allocators, create the new log and write the Snapshot of the Version and
\* the allocators.
RotateWrite ==
  LET seq  == vs.last_manifest_num
      vs1  == [vs EXCEPT !.last_manifest_num = @ + 1]
      tail == <<VersionChanged(vs1.last_seq),
                ManifestSequenceChanged(vs1.last_manifest_num),
                SSTSequenceChanged(vs1.last_sst_num)>>
  IN  /\ Running
      /\ rot.pc = "flushed"
      /\ tables.imemtables = << >>
      /\ \A n \in SstNums : tasks[n] \in {"none", "done"}
      /\ seq <= MaxManifestNum
      /\ vs' = vs1
      /\ manifest_log' = [manifest_log EXCEPT
                            ![manifest_seq] = @ \o tail,
                            ![seq] = <<Snapshot(vs1.version)>> \o tail]
      /\ manifest_files' = manifest_files \cup {seq}
      /\ manifest_seq' = seq
      /\ rot' = [pc |-> "written", old_seq |-> manifest_seq]
      /\ ResetReads
      /\ UNCHANGED <<status, no_wal, wal_current, wal_log, mem,
                     super_version, step_version, panicked, current, sst,
                     tasks, wr, held, user_snapshot, acked, last_batch,
                     allocated, installed, raced, snap_view, held_view,
                     restarts, seg_file, log_lock, writer, appended, flipped,
                     replayer, codec, lookup, flusher, reader, synced,
                     applied, editor, major>>

\* Manifest::rotate, its second block: Manifest::save_current_log writes the
\* number of the log to current_tmp and renames it to current
RotateSaveCurrent ==
  /\ Running
  /\ rot.pc = "written"
  /\ current' = manifest_seq
  /\ rot' = [rot EXCEPT !.pc = "saved"]
  /\ ResetReads
  /\ UNCHANGED <<status, no_wal, wal_current, wal_log, mem, super_version,
                 step_version, panicked, vs, manifest_seq, manifest_log,
                 manifest_files, sst, tasks, wr, held, user_snapshot, acked,
                 last_batch, allocated, installed, raced, snap_view,
                 held_view, restarts, seg_file, log_lock, writer, appended,
                 flipped, replayer, codec, lookup, flusher, reader, synced,
                 applied, editor, major>>

\* Manifest::rotate, its third block: remove the old log.  Storage::shutdown
\* returns and the Storage is dropped.
RotateRemove ==
  /\ Running
  /\ rot.pc = "saved"
  /\ manifest_files' = manifest_files \ {rot.old_seq}
  /\ manifest_log' = [manifest_log EXCEPT ![rot.old_seq] = << >>]
  /\ status' = "down"
  /\ restarts' = restarts + 1
  /\ LoseMemory
  /\ ResetReads
  /\ UNCHANGED <<no_wal, wal_current, wal_log, current, sst, acked,
                 last_batch, allocated, installed, raced, seg_file, log_lock,
                 writer, appended, flipped, replayer, codec, lookup, flusher,
                 reader, synced, applied, editor, major>>

\* ------------------------------------------------------ crash and restart

\* the process dies; the files stay as they are
Crash ==
  /\ status # "down"
  /\ restarts < MaxRestarts
  /\ status' = "down"
  /\ restarts' = restarts + 1
  /\ LoseMemory
  /\ ResetReads
  /\ UNCHANGED <<no_wal, wal_current, wal_log, manifest_log, manifest_files,
                 current, sst, acked, last_batch, allocated, installed,
                 raced, seg_file, log_lock, writer, appended, flipped,
                 replayer, codec, lookup, flusher, reader, synced, applied,
                 editor, major>>

\* Manifest::new up to LogWriter::rotate: read current (0 when it is absent)
\* and create the log with the next number
StartManifest ==
  /\ status = "down"
  /\ current + 1 <= MaxManifestNum
  /\ manifest_seq' = current + 1
  /\ manifest_log' = [manifest_log EXCEPT ![current + 1] = << >>]
  /\ manifest_files' = manifest_files \cup {current + 1}
  /\ status' = "created"
  /\ ResetReads
  /\ UNCHANGED <<no_wal, wal_current, wal_log, mem, super_version,
                 step_version, panicked, vs, current, sst, tasks, wr, held,
                 user_snapshot, acked, last_batch, allocated, installed,
                 raced, snap_view, held_view, rot, restarts, seg_file,
                 log_lock, writer, appended, flipped, replayer, codec,
                 lookup, flusher, reader, synced, applied, editor, major>>

\* Manifest::new from restore_from_wal on: replay the log that current named
\* into a fresh VersionSet (no such file: keep the default one), point
\* current at the new log, set last_manifest_num
StartRestore ==
  LET seq   == manifest_seq - 1
      state == IF seq \in manifest_files THEN Replay(manifest_log[seq])
               ELSE VersionSetDefault
  IN  /\ status = "created"
      /\ vs' = [state EXCEPT !.last_manifest_num = seq + 2]
      /\ current' = manifest_seq
      /\ status' = "restored"
      /\ ResetReads
      /\ UNCHANGED <<no_wal, wal_current, wal_log, mem, super_version,
                     step_version, panicked, manifest_seq, manifest_log,
                     manifest_files, sst, tasks, wr, held, user_snapshot,
                     acked, last_batch, allocated, installed, raced,
                     snap_view, held_view, rot, restarts, seg_file, log_lock,
                     writer, appended, flipped, replayer, codec, lookup,
                     flusher, reader, synced, applied, editor, major>>

\* Storage::new after Manifest::new: the memtable takes the number
\* last_sst_number - 1, or a fresh number when last_sst_number is 0; the
\* SuperVersion starts at step 0 with Manifest::current.  Storage::restore
\* then looks for the write-ahead log with the number of the memtable and
\* returns when there is none.
StartStorage ==
  LET fresh  == vs.last_sst_num = 0
      number == IF fresh THEN 0 ELSE vs.last_sst_num - 1
      edit   == SSTSequenceChanged(1)
  IN  /\ status = "restored"
      /\ number \notin DOMAIN wal_log
      /\ vs' = IF fresh THEN VersionSetAdd(vs, edit) ELSE vs
      /\ manifest_log' = IF fresh THEN Commit(manifest_log, edit) ELSE manifest_log
      /\ mem' = [mem EXCEPT ![number] = {}]
      /\ super_version' = [cf_tables |-> [memtable |-> number, imemtables |-> << >>],
                           sst_version |-> vs.version, step_version |-> 0]
      /\ step_version' = 0
      /\ status' = "up"
      /\ ResetReads
      /\ UNCHANGED <<no_wal, wal_current, wal_log, panicked, manifest_seq,
                     manifest_files, current, sst, tasks, wr, held,
                     user_snapshot, acked, last_batch, allocated, installed,
                     raced, snap_view, held_view, rot, restarts, seg_file,
                     log_lock, writer, appended, flipped, replayer, codec,
                     lookup, flusher, reader, synced, applied, editor, major>>

\* --------------------------------------------------------- specifications

\* Storage::set_batch with the default WriteOption, and flush_memtable
Write ==
  \/ \E batch \in Batches : SetBatchBegin(batch, FALSE) /\ UNCHANGED codec
  \/ SetBatchFinish
  \/ FlushMemtable

\* Storage::set and Storage::del, which build a batch of one mutation, with
\* WriteOption::fsync set, and flush_memtable
WriteSync ==
  \/ \E m \in Mutations : SetBatchBegin(<<m>>, TRUE) /\ UNCHANGED codec
  \/ SetBatchFinish
  \/ FlushMemtable

\* Storage::del with the default WriteOption, and flush_memtable
WriteDel ==
  \/ \E key \in Keys : SetBatchBegin(<<[k |-> key, del |-> TRUE, v |-> 0]>>, FALSE)
       /\ UNCHANGED codec
  \/ SetBatchFinish
  \/ FlushMemtable

Minor ==
  \/ \E n \in SstNums : MinorWrite(n)
  \/ \E n \in SstNums : MinorNewRun(n)
  \/ \E n \in SstNums : MinorInstall(n)

\* writers, flushes, the minor pool, and point reads with and without a snapshot
Next ==
  \/ Write
  \/ Minor
  \/ TakeSnapshot
  \/ ReleaseSnapshot
  \/ \E key \in Keys : \E snap \in SnapOptions : Get(key, snap)

Spec == Init /\ [][Next]_vars

\* writers, flushes, the minor pool, and scans by a reader that holds a SuperVersion
NextScan ==
  \/ Write
  \/ Minor
  \/ AcquireSuperVersion
  \/ ReleaseSuperVersion
  \/ \E lo \in Keys : \E hi \in lo..MaxKey : Scan(lo, hi, NoSnap)

SpecScan == Init /\ [][NextScan]_vars

Restart ==
  \/ Crash
  \/ StartManifest
  \/ StartRestore
  \/ StartStorage

\* single writes, the minor pool, point reads, crashes and restarts
NextCrash ==
  \/ WriteSync
  \/ Minor
  \/ \E key \in Keys : Get(key, NoSnap)
  \/ Restart

SpecCrash == Init /\ [][NextCrash]_vars

\* deletions, the minor pool, shutdown with its manifest rotation, crashes
\* and restarts
NextManifest ==
  \/ WriteDel
  \/ Minor
  \/ ShutdownFlush
  \/ RotateWrite
  \/ RotateSaveCurrent
  \/ RotateRemove
  \/ Restart

SpecManifest == Init /\ [][NextManifest]_vars

\* ------------------------------------------------------------- properties

\* the reads below are judged against the acknowledged history only when no
\* set_batch is under way and none has raced with a flush
Quiet == wr.pc = "idle" /\ ~raced

\* an entry of the history as the tiers store it
Entry(e) == [k |-> e.k, seq |-> e.seq, del |-> e.del, v |-> e.v]

\* the entries of the SST file with a given number
FileEntries(n) == {sst[n][j] : j \in 1..Len(sst[n])}

\* the tiers of the published SuperVersion in the order get_ex probes them
Tiers ==
  LET imm  == Reverse(tables.imemtables)
      runs == ProbeOrder(super_version.sst_version)
  IN  <<mem[tables.memtable]>>
      \o [i \in 1..Len(imm) |-> mem[imm[i]]]
      \o [i \in 1..Len(runs) |->
            UNION {FileEntries(runs[i].files[j].number) : j \in 1..Len(runs[i].files)}]

\* the keys a scan yielded
Yielded == {lastScan.res[i].k : i \in 1..Len(lastScan.res)}

RECURSIVE ExpectedScan(_, _)
\* what scan(lo..hi) must yield by the acknowledged history
ExpectedScan(lo, hi) ==
  IF lo > hi THEN << >>
  ELSE (IF Expected(lo, NoSnap) = KeyNotExist THEN << >>
        ELSE <<[k |-> lo, v |-> Expected(lo, NoSnap)]>>)
       \o ExpectedScan(lo + 1, hi)

\* C1: after any sequence of set, del, set_batch and flush_memtable calls,
\* with minor compactions completing at any point, Storage::get of a key
\* under a snapshot s (or under none) answers with the value of the newest
\* set of the key whose sequence is <= s, and with KeyNotExist when the
\* newest such mutation is a del or there is none.
C1_GetReturnsNewestVisible ==
  (lastGet.valid /\ Quiet) => lastGet.res = Expected(lastGet.k, lastGet.snap)

\* C2: a Storage::scan yields strictly ascending, unique user keys, no key
\* whose newest version is a tombstone, and for every key it yields the value
\* of the newest version among all tiers.  The scan is judged when nothing
\* was committed between the moment its SuperVersion was obtained and the scan.
C2_ScanYieldsNewestLive ==
  (lastScan.valid /\ Quiet /\ held_view = View)
    => lastScan.res = ExpectedScan(lastScan.lo, lastScan.hi)

\* C3: a mutation committed after a snapshot was taken is invisible under
\* that snapshot: get under the snapshot answers what the key held when the
\* snapshot was taken.
C3_SnapshotIsolation ==
  (/\ lastGet.valid
   /\ Quiet
   /\ lastGet.snap # NoSnap
   /\ snap_view[lastGet.k] # -1)
    => lastGet.res = snap_view[lastGet.k]

\* the newest version of the key is a tombstone in a tier that is probed
\* before a tier that holds an older live value of the key
ShadowedLive(key) ==
  \E t \in acked : \E o \in acked :
    /\ t.k = key /\ t.del
    /\ \A e \in acked : e.k = key /\ e # t => Newer(t, e)
    /\ o.k = key /\ ~o.del
    /\ \E i \in 1..Len(Tiers) : \E j \in (i + 1)..Len(Tiers) :
         Entry(t) \in Tiers[i] /\ Entry(o) \in Tiers[j]

\* C4: when the newest version of a key is a tombstone held in a higher tier
\* and an older live value of the key is held in a lower tier, a scan over a
\* range that contains the key does not yield the key.  The key was already
\* absent when the SuperVersion of the scan was obtained.
C4_TombstoneShadowsScan ==
  \A key \in Keys :
    (/\ lastScan.valid
     /\ Quiet
     /\ key \in lastScan.lo..lastScan.hi
     /\ held_view[key] = KeyNotExist
     /\ ShadowedLive(key))
      => key \notin Yielded

\* what get(k) must answer by the acknowledged writes that asked for fsync
ExpectedDurable(k) ==
  LET c == {e \in acked : e.k = k /\ e.fsync}
  IN  IF c = {} THEN KeyNotExist ELSE Answer(Newest(c))

C6_AcknowledgedSetIsRead ==
  (/\ lastGet.valid
   /\ lastGet.snap = NoSnap
   /\ \A i \in 1..Len(wr.batch) : wr.batch[i].k # lastGet.k
   /\ Expected(lastGet.k, NoSnap) # KeyNotExist)
    => lastGet.res = Expected(lastGet.k, NoSnap)

\* what the last acknowledged batch leaves for the key
LastBatchAnswer(key) == Answer(Newest({e \in last_batch : e.k = key}))

\* C7: with no concurrent writers, after set_batch(B), flush_memtable() and
\* the wait for an empty frozen list, get returns the value of every key
\* whose last mutation in B is a set and KeyNotExist for every key whose
\* last mutation in B is a del.
C7_FlushRoundTrip ==
  (/\ lastGet.valid
   /\ lastGet.snap = NoSnap
   /\ Quiet
   /\ \E e \in last_batch : e.k = lastGet.k
   /\ mem[tables.memtable] = {}
   /\ tables.imemtables = << >>)
    => lastGet.res = LastBatchAnswer(lastGet.k)

\* C8: a scan run against a SuperVersion the caller holds yields every key
\* that was live when the SuperVersion was obtained and has not been written
\* since, also when a minor compaction has installed a newer SuperVersion
\* in between.
C8_ScanSeesHeldTiers ==
  \A key \in Keys :
    (/\ lastScan.valid
     /\ Quiet
     /\ key \in lastScan.lo..lastScan.hi
     /\ held_view[key] \notin {-1, KeyNotExist}
     /\ Expected(key, NoSnap) = held_view[key])
      => key \in Yielded

\* the VersionSet Manifest::new builds from the log that manifest/current names
Recovered ==
  LET state == IF current \in manifest_files THEN Replay(manifest_log[current])
               ELSE VersionSetDefault
  IN  [state EXCEPT !.last_manifest_num = current + 2]

HasFiles(run) == run.files # << >>

\* the files of a Version by level and run, the runs without a file left out
FileRuns(version) ==
  [l \in StoredLevels |->
     LET runs == SelectSeq(version.sst_files[l], HasFiles)
     IN  [i \in 1..Len(runs) |-> runs[i].files]]

\* C9: after any sequence of add_sst_with, allocate_sst_number and rotate
\* calls that have returned, the replay of the manifest log that
\* manifest/current names into a fresh VersionSet yields the Version the
\* running engine holds: the same FileMetaData in the same runs at the same
\* levels.
C9_ReplayYieldsRunningVersion ==
  (status = "up" /\ rot.pc = "idle" /\ Busy = {})
    => FileRuns(Recovered.version) = FileRuns(vs.version)

\* the FileMetaData of the files a Version holds
VersionFiles(version) ==
  LET all == VersionLogWrite(version)
  IN  {all[i] : i \in 1..Len(all)}

\* C10: at every point of startup, normal operation and rotation, also after
\* several restarts, the manifest log that manifest/current names exists and
\* its replay alone holds every SST that was installed and an SST-number
\* allocator beyond the numbers of those SSTs.
C10_CurrentLogRebuildsVersionSet ==
  /\ current \in manifest_files
  /\ \A meta \in installed :
       /\ meta \in VersionFiles(Recovered.version)
       /\ Recovered.last_sst_num > meta.number
\* ---------------------------------------------------- LogWriter::append

\* a LogWriter whose append takes no lock
MutexFreeAlways == TRUE

\* the mutex LogWriter::inner is free
MutexFree == ~log_lock

\* the replay has not begun: the LogWriter is still there
Appending == replayer.pc = "idle"

\* LogWriter::append up to the first write to the file: take the lock and
\* run the serializer into a SegmentWriter
AppendLock(a, entry) ==
  /\ Appending
  /\ writer[a].pc = "idle"
  /\ MutexFree
  /\ Len(appended) + Cardinality({b \in Appenders : writer[b].pc # "idle"}) < MaxRecords
  /\ log_lock' = TRUE
  /\ writer' = [writer EXCEPT ![a] = [pc |-> "writing", entry |-> entry,
                                      segs |-> SegmentWriterWrite(StringWrite(entry), 0),
                                      written |-> 0]]
  /\ UNCHANGED <<status, no_wal, wal_current, wal_log, mem, super_version,
                 step_version, panicked, vs, manifest_seq, manifest_log,
                 manifest_files, current, sst, tasks, wr, held,
                 user_snapshot, lastGet, lastScan, acked, last_batch,
                 allocated, installed, raced, snap_view, held_view, rot,
                 restarts, seg_file, appended, flipped, replayer, codec,
                 lookup, flusher, reader, synced, applied, editor, major>>

\* SegmentWriter::flush_segment: write_all hands one segment to the file
AppendSegment(a) ==
  /\ writer[a].pc = "writing"
  /\ writer[a].segs # << >>
  /\ seg_file' = Append(seg_file, Head(writer[a].segs))
  /\ writer' = [writer EXCEPT ![a].segs = Tail(@), ![a].written = @ + 1]
  /\ UNCHANGED <<status, no_wal, wal_current, wal_log, mem, super_version,
                 step_version, panicked, vs, manifest_seq, manifest_log,
                 manifest_files, current, sst, tasks, wr, held,
                 user_snapshot, lastGet, lastScan, acked, last_batch,
                 allocated, installed, raced, snap_view, held_view, rot,
                 restarts, log_lock, appended, flipped, replayer, codec,
                 lookup, flusher, reader, synced, applied, editor, major>>

\* the write of a segment fails: append returns the error and the lock is
\* released; what was written stays in the file
AppendFail(a) ==
  /\ writer[a].pc = "writing"
  /\ writer[a].segs # << >>
  /\ \A i \in 1..Len(appended) : appended[i].ok
  /\ appended' = Append(appended, [entry |-> writer[a].entry, ok |-> FALSE,
                                   segs |-> writer[a].written, by |-> a])
  /\ writer' = [writer EXCEPT ![a] = AppenderIdle]
  /\ log_lock' = FALSE
  /\ UNCHANGED <<status, no_wal, wal_current, wal_log, mem, super_version,
                 step_version, panicked, vs, manifest_seq, manifest_log,
                 manifest_files, current, sst, tasks, wr, held,
                 user_snapshot, lastGet, lastScan, acked, last_batch,
                 allocated, installed, raced, snap_view, held_view, rot,
                 restarts, seg_file, flipped, replayer, codec, lookup,
                 flusher, reader, synced, applied, editor, major>>

\* LogWriter::append returns Ok and the lock is released
AppendReturn(a) ==
  /\ writer[a].pc = "writing"
  /\ writer[a].segs = << >>
  /\ appended' = Append(appended, [entry |-> writer[a].entry, ok |-> TRUE,
                                   segs |-> writer[a].written, by |-> a])
  /\ writer' = [writer EXCEPT ![a] = AppenderIdle]
  /\ log_lock' = FALSE
  /\ UNCHANGED <<status, no_wal, wal_current, wal_log, mem, super_version,
                 step_version, panicked, vs, manifest_seq, manifest_log,
                 manifest_files, current, sst, tasks, wr, held,
                 user_snapshot, lastGet, lastScan, acked, last_batch,
                 allocated, installed, raced, snap_view, held_view, rot,
                 restarts, seg_file, flipped, replayer, codec, lookup,
                 flusher, reader, synced, applied, editor, major>>

\* --------------------------------------------------- a damaged log file

\* one byte of one segment of the file takes another value
FlipByte ==
  /\ Appending
  /\ \A a \in Appenders : writer[a].pc = "idle"
  /\ flipped = 0
  /\ \E i \in 1..Len(seg_file) :
       LET seg == seg_file[i]
       IN  /\ flipped' = i
           /\ \/ seg_file' = [seg_file EXCEPT ![i].crc = << >>]
              \/ \E f \in (UNKNOWN..LAST_FRAGMENT) \ {seg.flags} :
                   seg_file' = [seg_file EXCEPT ![i].flags = f]
              \/ seg_file' = [seg_file EXCEPT ![i].reserved = 1]
              \/ \E n \in (0..(SegPayload + 1)) \ {seg.length} :
                   seg_file' = [seg_file EXCEPT ![i].length = n]
              \/ \E j \in 1..seg.length : \E b \in (0..MaxByte) \ {seg.payload[j]} :
                   seg_file' = [seg_file EXCEPT ![i].payload[j] = b]
  /\ UNCHANGED <<status, no_wal, wal_current, wal_log, mem, super_version,
                 step_version, panicked, vs, manifest_seq, manifest_log,
                 manifest_files, current, sst, tasks, wr, held,
                 user_snapshot, lastGet, lastScan, acked, last_batch,
                 allocated, installed, raced, snap_view, held_view, rot,
                 restarts, log_lock, writer, appended, replayer, codec,
                 lookup, flusher, reader, synced, applied, editor, major>>

\* ------------------------------------------------- LogReplayerIter::next

\* LogReplayerIter::next called by a loop that stops at the first Err, as the
\* loops of Manifest::restore_from_wal and Storage::restore do: a new
\* SegmentReader on the file where the last one stopped, and the serializer
ReplayNext ==
  LET rd == StringRead(seg_file, replayer.pos)
  IN  /\ \A a \in Appenders : writer[a].pc = "idle"
      /\ replayer.pc \in {"idle", "run"}
      /\ replayer' =
           [pc     |-> CASE rd.err = "None" -> "run"
                         [] rd.err = "Panic" -> "panic"
                         [] OTHER -> "end",
            pos    |-> rd.pos,
            out    |-> CASE rd.err = "None" ->
                              Append(replayer.out, [ok |-> TRUE, entry |-> rd.got])
                         [] rd.err = "InvalidData" ->
                              Append(replayer.out, [ok |-> FALSE, entry |-> << >>])
                         [] OTHER -> replayer.out,
            acc    |-> replayer.acc \cup rd.acc,
            err_at |-> IF rd.err = "InvalidData" THEN rd.pos ELSE 0]
      /\ UNCHANGED <<status, no_wal, wal_current, wal_log, mem,
                     super_version, step_version, panicked, vs, manifest_seq,
                     manifest_log, manifest_files, current, sst, tasks, wr,
                     held, user_snapshot, lastGet, lastScan, acked,
                     last_batch, allocated, installed, raced, snap_view,
                     held_view, rot, restarts, seg_file, log_lock, writer,
                     appended, flipped, codec, lookup, flusher, reader,
                     synced, applied, editor, major>>

LogAppend ==
  \/ \E a \in Appenders : \E entry \in Entries : AppendLock(a, entry)
  \/ \E a \in Appenders : AppendSegment(a)
  \/ \E a \in Appenders : AppendReturn(a)

\* appenders on one LogWriter, write errors, one flipped byte, and the replay
NextWal ==
  \/ LogAppend
  \/ \E a \in Appenders : AppendFail(a)
  \/ FlipByte
  \/ ReplayNext

SpecWal == InitWal /\ [][NextWal]_vars

\* the replay of a file of any segments
SpecReplay == InitReplay /\ [][ReplayNext]_vars

\* ---------------------------------------------------- write batch codec

\* a WriteBatchBuilder is put to use on an engine that has taken no write, and
\* the engine takes no write while the builder is in use
BuilderOpen ==
  /\ codec.pc \in {"idle", "building"}
  /\ codec.pc = "idle" => (allocated = 0 /\ wr.pc = "idle" /\ codec.asked = << >>)
  /\ Len(codec.asked) < MaxOps

\* WriteBatchBuilder::set
CodecSet(key, value) ==
  LET r == BuilderSet(codec.builder, key, value)
  IN  /\ BuilderOpen
      /\ codec' = [codec EXCEPT !.pc = "building", !.builder = r.builder,
                                !.asked = Append(@, [ty |-> KeyTypeSet, key |-> key,
                                                     value |-> value, ok |-> r.ok])]
      /\ UNCHANGED <<status, no_wal, wal_current, wal_log, mem,
                     super_version, step_version, panicked, vs, manifest_seq,
                     manifest_log, manifest_files, current, sst, tasks, wr,
                     held, user_snapshot, lastGet, lastScan, acked,
                     last_batch, allocated, installed, raced, snap_view,
                     held_view, rot, restarts, seg_file, log_lock, writer,
                     appended, flipped, replayer, lookup, flusher, reader,
                     synced, applied, editor, major>>

\* WriteBatchBuilder::del
CodecDel(key) ==
  LET r == BuilderDel(codec.builder, key)
  IN  /\ BuilderOpen
      /\ codec' = [codec EXCEPT !.pc = "building", !.builder = r.builder,
                                !.asked = Append(@, [ty |-> KeyTypeDel, key |-> key,
                                                     value |-> << >>, ok |-> r.ok])]
      /\ UNCHANGED <<status, no_wal, wal_current, wal_log, mem,
                     super_version, step_version, panicked, vs, manifest_seq,
                     manifest_log, manifest_files, current, sst, tasks, wr,
                     held, user_snapshot, lastGet, lastScan, acked,
                     last_batch, allocated, installed, raced, snap_view,
                     held_view, rot, restarts, seg_file, log_lock, writer,
                     appended, flipped, replayer, lookup, flusher, reader,
                     synced, applied, editor, major>>

\* WriteBatchBuilder::set_seq
CodecSetSeq(seq) ==
  /\ codec.pc = "building"
  /\ codec.builder.seq = 0
  /\ codec' = [codec EXCEPT !.builder.seq = seq]
  /\ UNCHANGED <<status, no_wal, wal_current, wal_log, mem, super_version,
                 step_version, panicked, vs, manifest_seq, manifest_log,
                 manifest_files, current, sst, tasks, wr, held,
                 user_snapshot, lastGet, lastScan, acked, last_batch,
                 allocated, installed, raced, snap_view, held_view, rot,
                 restarts, seg_file, log_lock, writer, appended, flipped,
                 replayer, lookup, flusher, reader, synced, applied, editor,
                 major>>

\* WriteBatchBuilder::build and WriteBatch::iter
CodecBuild ==
  /\ codec.pc = "building"
  /\ codec' = [codec EXCEPT !.pc = "built", !.batch = build(codec.builder),
                            !.offset = 16]
  /\ UNCHANGED <<status, no_wal, wal_current, wal_log, mem, super_version,
                 step_version, panicked, vs, manifest_seq, manifest_log,
                 manifest_files, current, sst, tasks, wr, held,
                 user_snapshot, lastGet, lastScan, acked, last_batch,
                 allocated, installed, raced, snap_view, held_view, rot,
                 restarts, seg_file, log_lock, writer, appended, flipped,
                 replayer, lookup, flusher, reader, synced, applied, editor,
                 major>>

\* BatchIter::next
CodecIterNext ==
  LET item == BatchIterNext(codec.batch, codec.offset)
  IN  /\ codec.pc = "built"
      /\ codec.iter = "run"
      /\ codec' = [codec EXCEPT
           !.offset = item.offset,
           !.iter = CASE item.res = "Some" -> "run"
                      [] item.res = "None" -> "done"
                      [] OTHER -> "panic",
           !.out = IF item.res = "Some"
                   THEN Append(@, [ty |-> key_type(item.key),
                                   key |-> user_key_slice(item.key),
                                   value |-> item.value])
                   ELSE @]
      /\ UNCHANGED <<status, no_wal, wal_current, wal_log, mem,
                     super_version, step_version, panicked, vs, manifest_seq,
                     manifest_log, manifest_files, current, sst, tasks, wr,
                     held, user_snapshot, lastGet, lastScan, acked,
                     last_batch, allocated, installed, raced, snap_view,
                     held_view, rot, restarts, seg_file, log_lock, writer,
                     appended, flipped, replayer, lookup, flusher, reader,
                     synced, applied, editor, major>>

\* BatchLogSerializer::write, then BatchLogSerializer::read of what was written
CodecLogRoundTrip ==
  LET rd == BatchLogRead(BatchLogWrite(codec.batch))
  IN  /\ codec.pc = "built"
      /\ codec.copy = NoBatch
      /\ codec' = [codec EXCEPT !.copy = rd.batch, !.copy_err = rd.err]
      /\ UNCHANGED <<status, no_wal, wal_current, wal_log, mem,
                     super_version, step_version, panicked, vs, manifest_seq,
                     manifest_log, manifest_files, current, sst, tasks, wr,
                     held, user_snapshot, lastGet, lastScan, acked,
                     last_batch, allocated, installed, raced, snap_view,
                     held_view, rot, restarts, seg_file, log_lock, writer,
                     appended, flipped, replayer, lookup, flusher, reader,
                     synced, applied, editor, major>>

\* Storage::set: a builder of its own, WriteBatchBuilder::set, and with the
\* batch built Storage::set_batch up to Manifest::allocate_seq; the engine
\* knows the value of `value` bytes as Len(value) % MaxVal + 1
StorageSet(k, value) ==
  LET r == BuilderSet(WriteBatchBuilderNew, <<k>>, value)
  IN  /\ codec.pc = "idle"
      /\ Serving
      /\ wr.pc = "idle"
      /\ Len(codec.asked) < MaxOps
      /\ codec' = [codec EXCEPT !.asked = Append(@, [ty |-> KeyTypeSet, key |-> <<k>>,
                                                     value |-> value, ok |-> r.ok])]
      /\ IF r.ok
         THEN SetBatchBegin(<<[k |-> k, del |-> FALSE,
                               v |-> (Len(value) % MaxVal) + 1]>>, FALSE)
         ELSE
           /\ UNCHANGED <<status, no_wal, wal_current, wal_log, mem,
                          super_version, step_version, panicked, vs,
                          manifest_seq, manifest_log, manifest_files,
                          current, sst, tasks, wr, held, user_snapshot,
                          lastGet, lastScan, acked, last_batch, allocated,
                          installed, raced, snap_view, held_view, rot,
                          restarts, seg_file, log_lock, writer, appended,
                          flipped, replayer, lookup, flusher, reader, synced,
                          applied, editor, major>>

Codec ==
  \/ \E key \in UserKeys : \E value \in Values : CodecSet(key, value)
  \/ \E key \in UserKeys : CodecDel(key)
  \/ \E seq \in 1..MaxSeq : CodecSetSeq(seq)
  \/ CodecBuild
  \/ CodecIterNext
  \/ CodecLogRoundTrip

\* a WriteBatchBuilder and the readers of its batch, or calls of Storage::set
NextCodec ==
  \/ Codec
  \/ \E k \in Keys : \E value \in Values : StorageSet(k, value)
  \/ codec.pc = "idle" /\ SetBatchFinish
  \/ codec.pc = "idle" /\ FlushMemtable

SpecCodec == Init /\ [][NextCodec]_vars
\* ------------------------------------------ calls on one memtable or SST

\* Memtable::get
LookupGet(key, snap) ==
  /\ lookup.op = "none"
  /\ lookup' = [lookup EXCEPT !.op = "get", !.key = key, !.snap = snap,
                              !.res = MemtableGet(lookup.table, key, snap)]
  /\ UNCHANGED <<status, no_wal, wal_current, wal_log, mem, super_version,
                 step_version, panicked, vs, manifest_seq, manifest_log,
                 manifest_files, current, sst, tasks, wr, held,
                 user_snapshot, lastGet, lastScan, acked, last_batch,
                 allocated, installed, raced, snap_view, held_view, rot,
                 restarts, seg_file, log_lock, writer, appended, flipped,
                 replayer, codec, flusher, reader, synced, applied, editor,
                 major>>

\* Memtable::scan
LookupScan(beg, end, snap) ==
  /\ lookup.op = "none"
  /\ lookup' = [lookup EXCEPT !.op = "scan", !.beg = beg, !.end = end, !.snap = snap,
                              !.res = MemtableScanRange(lookup.table, beg, end, snap)]
  /\ UNCHANGED <<status, no_wal, wal_current, wal_log, mem, super_version,
                 step_version, panicked, vs, manifest_seq, manifest_log,
                 manifest_files, current, sst, tasks, wr, held,
                 user_snapshot, lastGet, lastScan, acked, last_batch,
                 allocated, installed, raced, snap_view, held_view, rot,
                 restarts, seg_file, log_lock, writer, appended, flipped,
                 replayer, codec, flusher, reader, synced, applied, editor,
                 major>>

\* RawSSTReaderInner::lower_bound on the SST written from the memtable
LookupLowerBound(key) ==
  /\ lookup.op = "none"
  /\ lookup' = [lookup EXCEPT !.op = "lower_bound", !.key = key,
                              !.res = lower_bound(SortEntries(lookup.table), key)]
  /\ UNCHANGED <<status, no_wal, wal_current, wal_log, mem, super_version,
                 step_version, panicked, vs, manifest_seq, manifest_log,
                 manifest_files, current, sst, tasks, wr, held,
                 user_snapshot, lastGet, lastScan, acked, last_batch,
                 allocated, installed, raced, snap_view, held_view, rot,
                 restarts, seg_file, log_lock, writer, appended, flipped,
                 replayer, codec, flusher, reader, synced, applied, editor,
                 major>>

\* RawSSTReaderInner::upper_bound on the SST written from the memtable
LookupUpperBound(key) ==
  /\ lookup.op = "none"
  /\ lookup' = [lookup EXCEPT !.op = "upper_bound", !.key = key,
                              !.res = upper_bound(SortEntries(lookup.table), key)]
  /\ UNCHANGED <<status, no_wal, wal_current, wal_log, mem, super_version,
                 step_version, panicked, vs, manifest_seq, manifest_log,
                 manifest_files, current, sst, tasks, wr, held,
                 user_snapshot, lastGet, lastScan, acked, last_batch,
                 allocated, installed, raced, snap_view, held_view, rot,
                 restarts, seg_file, log_lock, writer, appended, flipped,
                 replayer, codec, flusher, reader, synced, applied, editor,
                 major>>

\* one call on a table of any versions
NextLookup ==
  \/ \E key \in QueryKeys : \E snap \in {NoSnap} \cup (0..MaxSeq) : LookupGet(key, snap)
  \/ \E r \in RangeBounds : \E snap \in {NoSnap} \cup (0..MaxSeq) :
       LookupScan(r[1], r[2], snap)
  \/ \E key \in QueryKeys : LookupLowerBound(key)
  \/ \E key \in QueryKeys : LookupUpperBound(key)

SpecLookup == InitLookup /\ [][NextLookup]_vars
\* C11: in every state oldest_snapshot_version() is the least sequence among
\* the snapshots that were taken and are not yet released, and u64::MAX when
\* there is none; the snapshot Storage::get and Storage::scan take is
\* released when the call returns, so between calls the snapshots that live
\* are the SnapshotGuards the user holds.
C11_OldestSnapshotIsMinLive ==
  Serving => oldest_snapshot_version(vs) =
               (IF user_snapshot = NoSnap THEN U64_MAX ELSE user_snapshot)

\* what the replay must yield: the entries whose append returned Ok
Yield(entry) == [ok |-> TRUE, entry |-> entry]
IsOk(a) == a.ok
AppendedOk ==
  LET oks == SelectSeq(appended, IsOk)
  IN  [i \in 1..Len(oks) |-> Yield(oks[i].entry)]

\* no append has failed and no byte was flipped
Undamaged == flipped = 0 /\ \A i \in 1..Len(appended) : appended[i].ok

\* C12: the replay of a log written by LogWriter::append, by one or by
\* several threads, with entries shorter than a segment, as long as one and
\* longer, yields the appended entries, each whole, in the order in which the
\* appends were serialized: what it has yielded is at any time a prefix of
\* them, and all of them once it has ended.
C12_LogRoundTrip ==
  Undamaged =>
    /\ replayer.pc # "panic"
    /\ Len(replayer.out) <= Len(AppendedOk)
    /\ replayer.out = SubSeq(AppendedOk, 1, Len(replayer.out))
    /\ replayer.pc = "end" => replayer.out = AppendedOk

\* a replay has ended on a log of two entries written by two threads, the
\* first one of them in three segments
C12_Witness ==
  /\ Undamaged
  /\ replayer.pc = "end"
  /\ Len(appended) = 2
  /\ appended[1].by # appended[2].by
  /\ appended[1].segs > 2
  /\ Len(replayer.out) = 2

RECURSIVE RecordOf(_, _)
\* the append that wrote segment i of the file, counted from append r on
RecordOf(i, r) ==
  IF i <= appended[r].segs THEN r
  ELSE RecordOf(i - appended[r].segs, r + 1)

\* C13: after one byte of a written segment, header or payload, was flipped,
\* the replay yields the records before the affected one unchanged, reports
\* an error for the affected record, and yields neither it nor a later
\* record as valid.
C13_FlipIsReported ==
  (/\ replayer.pc = "end"
   /\ flipped # 0
   /\ \A i \in 1..Len(appended) : appended[i].ok)
    => LET r == RecordOf(flipped, 1)
       IN  /\ Len(replayer.out) >= r
           /\ SubSeq(replayer.out, 1, r - 1) = SubSeq(AppendedOk, 1, r - 1)
           /\ \A j \in r..Len(replayer.out) : ~replayer.out[j].ok

\* C14: an append that returns an error leaves a log whose replay yields
\* the entries whose append returned Ok, those before and those after the
\* failed one, no part of a record and no error.
C14_FailedAppendLeavesNoTrace ==
  flipped = 0 =>
    /\ Len(replayer.out) <= Len(AppendedOk)
    /\ replayer.out = SubSeq(AppendedOk, 1, Len(replayer.out))
    /\ replayer.pc = "end" => replayer.out = AppendedOk

\* the flags of the segment before segment i of the file; UNKNOWN at its start
FlagsBefore(i) == IF i = 1 THEN UNKNOWN ELSE seg_file[i - 1].flags

\* the legal transitions between the flags of consecutive segments
LegalTransition(prev, flags) ==
  \/ prev \in {UNKNOWN, FULL_FRAGMENT, LAST_FRAGMENT}
       /\ flags \in {FULL_FRAGMENT, BEGIN_FRAGMENT}
  \/ prev \in {BEGIN_FRAGMENT, CONTINUE_FRAGMENT}
       /\ flags \in {CONTINUE_FRAGMENT, LAST_FRAGMENT}

\* C15: the replayer accepts a segment only over a legal transition from
\* the segment before it (FULL or LAST or the start of the file to FULL or
\* BEGIN, BEGIN or CONTINUE to CONTINUE or LAST), and a tail of zeros or a
\* segment cut short ends the iteration without an error.
C15_FlagStateMachine ==
  /\ \A i \in replayer.acc : LegalTransition(FlagsBefore(i), seg_file[i].flags)
  /\ replayer.err_at # 0 =>
       seg_file[replayer.err_at].whole /\ seg_file[replayer.err_at].flags # UNKNOWN


\* what was asked of the builder and is within the limit of a value
WithinLimit(op) == Len(op.value) <= ValueLimit
Added ==
  LET ops == SelectSeq(codec.asked, WithinLimit)
  IN  [i \in 1..Len(ops) |-> [ty |-> ops[i].ty, key |-> ops[i].key,
                              value |-> ops[i].value]]

\* C16: the batch built from any sequence of set and del operations yields,
\* through iter(), exactly those operations in the order they were added, each
\* with its user key, its key type and its value (empty for del); and the batch
\* read back from what BatchLogSerializer wrote has the same count and bytes
C16_BatchCodecRoundTrip ==
  codec.pc = "built" =>
    /\ codec.iter # "panic"
    /\ Len(codec.out) <= Len(Added)
    /\ codec.out = SubSeq(Added, 1, Len(codec.out))
    /\ codec.iter = "done" => codec.out = Added
    /\ codec.copy # NoBatch =>
         /\ codec.copy_err = "None"
         /\ codec.copy.total = codec.batch.total
         /\ codec.copy.bytes = codec.batch.bytes

\* a batch of a set with a value and a del, built after set_seq, has been
\* iterated to its end and read back from its log record
C16_Witness ==
  /\ codec.pc = "built"
  /\ codec.iter = "done"
  /\ codec.copy # NoBatch
  /\ codec.builder.seq # 0
  /\ Len(codec.out) = 2
  /\ codec.out[1].ty = KeyTypeSet /\ codec.out[1].value # << >>
  /\ codec.out[2].ty = KeyTypeDel /\ codec.out[2].key # << >>

RECURSIVE RecordBytes(_)
\* the bytes of the records of operations: 8 bytes of lengths, the user key,
\* 8 bytes of sequence and type, the value
RecordBytes(ops) ==
  IF ops = << >> THEN 0
  ELSE 8 + Len(Head(ops).key) + 8 + Len(Head(ops).value) + RecordBytes(Tail(ops))

\* C17: a builder refuses a value longer than the limit (10 MiB) and takes a
\* value of exactly the limit; a refused set leaves count and bytes of the
\* builder as they were; Storage::set with a value over the limit allocates no
\* sequence number and puts nothing in a memtable or a write-ahead log
C17_ValueTooLargeRefused ==
  /\ \A i \in 1..Len(codec.asked) : codec.asked[i].ok = WithinLimit(codec.asked[i])
  /\ codec.pc # "idle" =>
       /\ codec.builder.total = Len(Added)
       /\ Len(codec.builder.bytes) = 16 + RecordBytes(Added)
  /\ codec.pc = "idle" =>
       /\ allocated = Len(Added)
       /\ Cardinality(UNION {mem[n] : n \in SstNums}) <= Len(Added)
       /\ \A f \in DOMAIN wal_log : Len(wal_log[f]) <= Len(Added)

\* Storage::set has taken a value of exactly the limit and then refused one
\* that is one byte longer
C17_Witness ==
  /\ codec.pc = "idle"
  /\ Len(codec.asked) = 2
  /\ Len(codec.asked[1].value) = ValueLimit /\ codec.asked[1].ok
  /\ Len(codec.asked[2].value) = ValueLimit + 1 /\ ~codec.asked[2].ok
  /\ wr.pc = "idle"
  /\ allocated = 1

\* the version of key k a reader under snapshot snap must see in the table S
NewestVisible(S, k, snap) ==
  LET c == {e \in S : e.k = k /\ (snap = NoSnap \/ e.seq <= snap)}
  IN  IF c = {} THEN NoEntry ELSE CHOOSE e \in c : \A o \in c : o.seq <= e.seq

\* a user key is inside two bounds
KeyInside(k, beg, end) ==
  /\ beg.kind = "Included" => k >= beg.val
  /\ beg.kind = "Excluded" => k > beg.val
  /\ end.kind = "Included" => k <= end.val
  /\ end.kind = "Excluded" => k < end.val

RECURSIVE VisibleFrom(_, _, _, _, _)
\* the newest visible version of every key from k on that is inside the bounds
\* and has one, in ascending order of the keys
VisibleFrom(S, k, beg, end, snap) ==
  IF k > MaxKey THEN << >>
  ELSE (IF KeyInside(k, beg, end) /\ NewestVisible(S, k, snap) # NoEntry
        THEN <<NewestVisible(S, k, snap)>> ELSE << >>)
       \o VisibleFrom(S, k + 1, beg, end, snap)

\* C18: Memtable::get without a snapshot returns the version of the key with
\* the greatest sequence, and with snapshot s the one with the greatest sequence
\* <= s, a tombstone as it is, KeyNotExist only when there is none; Memtable::scan
\* yields in ascending order of user keys exactly one entry per user key inside
\* the bounds, that same newest visible version
C18_MemtableVersionSelection ==
  /\ lookup.op = "get" =>
       lookup.res = NewestVisible(lookup.table, lookup.key, lookup.snap)
  /\ lookup.op = "scan" =>
       lookup.res = VisibleFrom(lookup.table, 1, lookup.beg, lookup.end, lookup.snap)

\* a scan under a snapshot with an exclusive start has yielded a tombstone that
\* is not the newest version of its key
C18_Witness ==
  /\ lookup.op = "scan"
  /\ lookup.snap # NoSnap
  /\ lookup.beg.kind = "Excluded"
  /\ Len(lookup.res) = 1
  /\ lookup.res[1].del
  /\ \E e \in lookup.table : e.k = lookup.res[1].k /\ e.seq > lookup.res[1].seq
  /\ \E e \in lookup.table : e.k = lookup.beg.val

\* C19: on an SST of any records, several versions of a user key among them,
\* lower_bound(k) is the smallest index whose user key is >= k and
\* upper_bound(k) the smallest index whose user key is > k, and total_keys when
\* there is no such index
C19_SstBounds ==
  LET file == SortEntries(lookup.table)
      least(P(_)) == IF \E i \in 1..Len(file) : P(i)
                     THEN (CHOOSE i \in 1..Len(file) :
                             P(i) /\ \A j \in 1..(i - 1) : ~P(j)) - 1
                     ELSE Len(file)
      ge(i) == file[i].k >= lookup.key
      gt(i) == file[i].k > lookup.key
  IN  /\ lookup.op = "lower_bound" => lookup.res = least(ge)
      /\ lookup.op = "upper_bound" => lookup.res = least(gt)

\* lower_bound has answered on an SST of five records for a key of which the
\* file holds several versions, after records of a smaller key
C19_Witness ==
  /\ lookup.op = "lower_bound"
  /\ Cardinality(lookup.table) = 5
  /\ Cardinality({e \in lookup.table : e.k = lookup.key}) >= 2
  /\ lookup.res >= 2

\* the memtable with number n is in the list of frozen memtables
Frozen(n) == \E i \in 1..Len(tables.imemtables) : tables.imemtables[i] = n

\* C20: once flush_memtable has frozen a memtable and handed it to the minor
\* pool, no set, del or set_batch inserts into it, whatever the interleaving of
\* a writer that loaded the tables before the freeze with the freezing thread
C20_FrozenMemtableReadOnly ==
  [][\A n \in SstNums : Frozen(n) => mem'[n] \subseteq mem[n]]_vars
\* ----------------------------------------- the install path, lock by lock

\* StorageInner::lock is held: a thread is inside the closure of
\* flush_memtable, before its call of allocate_sst_number
SvLocked == flusher = "closure"

\* Manifest::version_set is held: an installer is inside add_sst_with, before
\* its call of f
VsLocked == \E n \in SstNums : tasks[n] = "appended"

\* the manifest log being written
ManifestLog == manifest_log[manifest_seq]

\* LogWriter::sync without the fsync
LogWriterSyncNone(log, done) == done

\* LogWriter::sync: every record appended so far is on disk
LogWriterSync(log, done) == Len(log)

\* Storage::set and Storage::del up to Manifest::allocate_seq, which takes the
\* lock of the VersionSet
InstallWriteBegin(m) ==
  /\ ~VsLocked
  /\ SetBatchBegin(<<m>>, FALSE)
  /\ UNCHANGED codec

\* Storage::set_batch from the log append on, for a batch that does not fill
\* the memtable
InstallWriteFinish ==
  /\ ~MemtableFull(MemtableSetBatch(mem[wr.memtable], wr.batch, wr.seq))
  /\ SetBatchFinish

\* Storage::flush_memtable up to the call of allocate_sst_number:
\* modify_super_version_opt takes the lock, loads the SuperVersion and adds
\* one to the counter; the closure returns None on an empty memtable, and
\* modify_super_version_opt returns
FlushLock ==
  /\ Serving
  /\ flusher = "idle"
  /\ FlushInBounds(mem)
  /\ step_version' = step_version + 1
  /\ flusher' = IF mem[tables.memtable] # {} THEN "closure" ELSE "idle"
  /\ ResetReads
  /\ UNCHANGED <<status, no_wal, wal_current, wal_log, mem, super_version,
                 panicked, vs, manifest_seq, manifest_log, manifest_files,
                 current, sst, tasks, wr, held, user_snapshot, acked,
                 last_batch, allocated, installed, raced, snap_view,
                 held_view, rot, restarts, seg_file, log_lock, writer,
                 appended, flipped, replayer, codec, lookup, reader, synced,
                 applied, editor, major>>

\* flush_memtable storing a SuperVersion with Version::default in place of
\* the Version of the SuperVersion it loaded
FlushClosureDefault ==
  LET sv         == super_version
      old_table  == sv.cf_tables.memtable
      new_number == vs.last_sst_num
      edit       == SSTSequenceChanged(vs.last_sst_num + 1)
  IN  /\ Running
      /\ flusher = "closure"
      /\ ~VsLocked
      /\ manifest_log' = Commit(manifest_log, edit)
      /\ synced' = LogWriterSync(manifest_log'[manifest_seq], synced)
      /\ vs' = VersionSetAdd(vs, edit)
      /\ applied' = Append(applied, edit)
      /\ mem' = [mem EXCEPT ![new_number] = {}]
      /\ tasks' = [tasks EXCEPT ![old_table] = "queued"]
      /\ IF step_version = sv.step_version + 1
         THEN /\ super_version' =
                   [cf_tables |->
                      [memtable |-> new_number,
                       imemtables |->
                         ImemtablesPush(sv.cf_tables.imemtables, old_table)],
                    sst_version |-> VersionDefault,
                    step_version |-> sv.step_version + 1]
              /\ panicked' = panicked
         ELSE /\ super_version' = super_version
              /\ panicked' = TRUE
      /\ raced' = (raced \/ wr.pc = "loaded")
      /\ flusher' = "idle"
      /\ ResetReads
      /\ UNCHANGED <<status, no_wal, wal_current, wal_log, step_version,
                     manifest_seq, manifest_files, current, sst, wr, held,
                     user_snapshot, acked, last_batch, allocated, installed,
                     snap_view, held_view, rot, restarts, seg_file, log_lock,
                     writer, appended, flipped, replayer, codec, lookup,
                     reader, editor, major>>

\* Storage::flush_memtable from allocate_sst_number on, with the SuperVersion
\* lock held: the lock of the VersionSet, commit and add of SSTSequenceChanged,
\* compact_async, the assertion and the two stores
FlushClosure ==
  LET sv         == super_version
      old_table  == sv.cf_tables.memtable
      new_number == vs.last_sst_num
      edit       == SSTSequenceChanged(vs.last_sst_num + 1)
  IN  /\ Running
      /\ flusher = "closure"
      /\ ~VsLocked
      /\ manifest_log' = Commit(manifest_log, edit)
      /\ synced' = LogWriterSync(manifest_log'[manifest_seq], synced)
      /\ vs' = VersionSetAdd(vs, edit)
      /\ applied' = Append(applied, edit)
      /\ mem' = [mem EXCEPT ![new_number] = {}]
      /\ tasks' = [tasks EXCEPT ![old_table] = "queued"]
      /\ IF step_version = sv.step_version + 1
         THEN /\ super_version' =
                   [cf_tables |->
                      [memtable |-> new_number,
                       imemtables |->
                         ImemtablesPush(sv.cf_tables.imemtables, old_table)],
                    sst_version |-> sv.sst_version,
                    step_version |-> sv.step_version + 1]
              /\ panicked' = panicked
         ELSE /\ super_version' = super_version
              /\ panicked' = TRUE
      /\ raced' = (raced \/ wr.pc = "loaded")
      /\ flusher' = "idle"
      /\ ResetReads
      /\ UNCHANGED <<status, no_wal, wal_current, wal_log, step_version,
                     manifest_seq, manifest_files, current, sst, wr, held,
                     user_snapshot, acked, last_batch, allocated, installed,
                     snap_view, held_view, rot, restarts, seg_file, log_lock,
                     writer, appended, flipped, replayer, codec, lookup,
                     reader, editor, major>>

\* the edit the installer of SST n commits next
InstallEdit(n) ==
  IF tasks[n] \in {"written", "nr_appended", "nr_synced"} THEN NewRun(0)
  ELSE SSTAppended(FileMetaData(n, sst[n], 0))

\* Manifest::commit, its first line: LogWriter::append
InstallAppend(n) ==
  /\ Running
  /\ tasks[n] \in {"written", "newrun"}
  /\ manifest_log' = Commit(manifest_log, InstallEdit(n))
  /\ tasks' = [tasks EXCEPT ![n] = IF @ = "written" THEN "nr_appended"
                                    ELSE "sa_appended"]
  /\ ResetReads
  /\ UNCHANGED <<status, no_wal, wal_current, wal_log, mem, super_version,
                 step_version, panicked, vs, manifest_seq, manifest_files,
                 current, sst, wr, held, user_snapshot, acked, last_batch,
                 allocated, installed, raced, snap_view, held_view, rot,
                 restarts, seg_file, log_lock, writer, appended, flipped,
                 replayer, codec, lookup, flusher, reader, synced, applied,
                 editor, major>>

\* Manifest::commit, its second line: LogWriter::sync
InstallSync(n) ==
  /\ Running
  /\ tasks[n] \in {"nr_appended", "sa_appended"}
  /\ synced' = LogWriterSync(ManifestLog, synced)
  /\ tasks' = [tasks EXCEPT ![n] = IF @ = "nr_appended" THEN "nr_synced"
                                    ELSE "sa_synced"]
  /\ ResetReads
  /\ UNCHANGED <<status, no_wal, wal_current, wal_log, mem, super_version,
                 step_version, panicked, vs, manifest_seq, manifest_log,
                 manifest_files, current, sst, wr, held, user_snapshot,
                 acked, last_batch, allocated, installed, raced, snap_view,
                 held_view, rot, restarts, seg_file, log_lock, writer,
                 appended, flipped, replayer, codec, lookup, flusher, reader,
                 applied, editor, major>>

\* Manifest::commit returns Err, from append or from sync, and the unwrap in
\* add_sst_with panics on the thread of the pool, which holds no lock
InstallFail(n) ==
  /\ Running
  /\ tasks[n] \in {"written", "newrun", "nr_appended", "sa_appended"}
  /\ tasks' = [tasks EXCEPT ![n] = "failed"]
  /\ ResetReads
  /\ UNCHANGED <<status, no_wal, wal_current, wal_log, mem, super_version,
                 step_version, panicked, vs, manifest_seq, manifest_log,
                 manifest_files, current, sst, wr, held, user_snapshot,
                 acked, last_batch, allocated, installed, raced, snap_view,
                 held_view, rot, restarts, seg_file, log_lock, writer,
                 appended, flipped, replayer, codec, lookup, flusher, reader,
                 synced, applied, editor, major>>

\* Manifest::add_sst_with, the block of new_run after the commit: the lock of
\* the VersionSet, add of NewRun, and the lock is dropped
InstallAddNewRun(n) ==
  /\ Running
  /\ tasks[n] = "nr_synced"
  /\ ~VsLocked
  /\ vs' = VersionSetAdd(vs, NewRun(0))
  /\ applied' = Append(applied, NewRun(0))
  /\ tasks' = [tasks EXCEPT ![n] = "newrun"]
  /\ ResetReads
  /\ UNCHANGED <<status, no_wal, wal_current, wal_log, mem, super_version,
                 step_version, panicked, manifest_seq, manifest_log,
                 manifest_files, current, sst, wr, held, user_snapshot,
                 acked, last_batch, allocated, installed, raced, snap_view,
                 held_view, rot, restarts, seg_file, log_lock, writer,
                 appended, flipped, replayer, codec, lookup, flusher, reader,
                 synced, editor, major>>

\* Manifest::add_sst_with after the commit of SSTAppended: the lock of the
\* VersionSet, which is kept, and add
InstallAddAppended(n) ==
  /\ Running
  /\ tasks[n] = "sa_synced"
  /\ ~VsLocked
  /\ vs' = VersionSetAdd(vs, InstallEdit(n))
  /\ applied' = Append(applied, InstallEdit(n))
  /\ installed' = installed \cup {FileMetaData(n, sst[n], 0)}
  /\ tasks' = [tasks EXCEPT ![n] = "appended"]
  /\ ResetReads
  /\ UNCHANGED <<status, no_wal, wal_current, wal_log, mem, super_version,
                 step_version, panicked, manifest_seq, manifest_log,
                 manifest_files, current, sst, wr, held, user_snapshot,
                 acked, last_batch, allocated, raced, snap_view, held_view,
                 rot, restarts, seg_file, log_lock, writer, appended,
                 flipped, replayer, codec, lookup, flusher, reader, synced,
                 editor, major>>

\* f(vs.current()) with the lock of the VersionSet held: the installer calls
\* modify_super_version, which takes the SuperVersion lock, adds one to the
\* counter, checks the step and stores; then both locks are dropped
InstallPublish(n) ==
  LET sv == super_version
  IN  /\ Running
      /\ tasks[n] = "appended"
      /\ ~SvLocked
      /\ step_version' = step_version + 1
      /\ IF step_version = sv.step_version
         THEN /\ super_version' = InstallerSuperVersion(sv, n, vs.version)
              /\ panicked' = panicked
         ELSE /\ super_version' = super_version
              /\ panicked' = TRUE
      /\ tasks' = [tasks EXCEPT ![n] = "done"]
      /\ ResetReads
      /\ UNCHANGED <<status, no_wal, wal_current, wal_log, mem, vs,
                     manifest_seq, manifest_log, manifest_files, current,
                     sst, wr, held, user_snapshot, acked, last_batch,
                     allocated, installed, raced, snap_view, held_view, rot,
                     restarts, seg_file, log_lock, writer, appended, flipped,
                     replayer, codec, lookup, flusher, reader, synced,
                     applied, editor, major>>

\* a reader calls StorageInner::super_version
ReaderCall ==
  /\ Serving
  /\ reader = "idle"
  /\ held = NoSV
  /\ reader' = "load"
  /\ UNCHANGED <<status, no_wal, wal_current, wal_log, mem, super_version,
                 step_version, panicked, vs, manifest_seq, manifest_log,
                 manifest_files, current, sst, tasks, wr, held,
                 user_snapshot, lastGet, lastScan, acked, last_batch,
                 allocated, installed, raced, snap_view, held_view, rot,
                 restarts, seg_file, log_lock, writer, appended, flipped,
                 replayer, codec, lookup, flusher, synced, applied, editor,
                 major>>

\* StorageInner::super_version, one turn of its loop up to the test: the
\* SuperVersion is returned when its step is the counter
ReaderLoad ==
  /\ Running
  /\ reader = "load"
  /\ IF SuperVersionReturns
     THEN /\ held' = super_version
          /\ held_view' = View
          /\ reader' = "idle"
     ELSE /\ reader' = "slow"
          /\ UNCHANGED <<held, held_view>>
  /\ UNCHANGED <<status, no_wal, wal_current, wal_log, mem, super_version,
                 step_version, panicked, vs, manifest_seq, manifest_log,
                 manifest_files, current, sst, tasks, wr, user_snapshot,
                 lastGet, lastScan, acked, last_batch, allocated, installed,
                 raced, snap_view, rot, restarts, seg_file, log_lock, writer,
                 appended, flipped, replayer, codec, lookup, flusher, synced,
                 applied, editor, major>>

\* the slow path: the reader takes the SuperVersion lock, drops it and goes
\* round the loop
ReaderSlow ==
  /\ Running
  /\ reader = "slow"
  /\ ~SvLocked
  /\ reader' = "load"
  /\ UNCHANGED <<status, no_wal, wal_current, wal_log, mem, super_version,
                 step_version, panicked, vs, manifest_seq, manifest_log,
                 manifest_files, current, sst, tasks, wr, held,
                 user_snapshot, lastGet, lastScan, acked, last_batch,
                 allocated, installed, raced, snap_view, held_view, rot,
                 restarts, seg_file, log_lock, writer, appended, flipped,
                 replayer, codec, lookup, flusher, synced, applied, editor,
                 major>>

InstallWrite ==
  \/ \E m \in Mutations : InstallWriteBegin(m)
  \/ InstallWriteFinish

Flush ==
  \/ FlushLock
  \/ FlushClosure

\* the steps of the installer of SST n when no write to the log fails
Install(n) ==
  \/ MinorWrite(n)
  \/ InstallAppend(n)
  \/ InstallSync(n)
  \/ InstallAddNewRun(n)
  \/ InstallAddAppended(n)
  \/ InstallPublish(n)

SuperVersionLoop ==
  \/ ReaderLoad
  \/ ReaderSlow

\* writers, flushes and the minor pool with their locks, writes to the
\* manifest log that fail, and a reader of the SuperVersion
NextInstall ==
  \/ InstallWrite
  \/ Flush
  \/ \E n \in SstNums : Install(n)
  \/ \E n \in SstNums : InstallFail(n)
  \/ ReaderCall
  \/ SuperVersionLoop
  \/ ReleaseSuperVersion

SpecInstall == Init /\ [][NextInstall]_vars

\* deletions, flushes, the minor pool and a reader; no write to the log fails
NextFair ==
  \/ \E key \in Keys : InstallWriteBegin([k |-> key, del |-> TRUE, v |-> 0])
  \/ InstallWriteFinish
  \/ Flush
  \/ \E n \in SstNums : Install(n)
  \/ ReaderCall
  \/ SuperVersionLoop
  \/ ReleaseSuperVersion

\* every thread that can take a step takes one in the end: the thread inside
\* flush_memtable, each thread of the minor pool, the thread inside
\* super_version and the writer inside set_batch
Fairness ==
  /\ WF_vars(FlushClosure)
  /\ \A n \in SstNums : WF_vars(Install(n))
  /\ WF_vars(SuperVersionLoop)
  /\ WF_vars(InstallWriteFinish)

SpecFair == Init /\ [][NextFair]_vars /\ Fairness

\* ------------------------------------------- claims on the install path

\* C21: the counter step_version equals the step_version of the published
\* SuperVersion whenever no thread is inside modify_super_version or
\* modify_super_version_opt, and the assertion val + 1 == sv.step_version
\* never fails, for any interleaving of flush_memtable calls (also on an
\* empty active memtable) and minor installs.
C21_StepVersionInSync ==
  /\ ~panicked
  /\ status = "up" => step_version = super_version.step_version

\* C22: a call of super_version() returns: the reader that is inside the loop
\* gets out of it with a SuperVersion, whatever installs and flushes of an
\* empty memtable came before.
C22_SuperVersionReturns == (reader = "load") ~> (reader = "idle")

\* the thread inside flush_memtable holds the SuperVersion lock and waits for
\* the lock of the VersionSet
FlusherWaits == flusher = "closure" /\ VsLocked

\* the installer of SST n holds the lock of the VersionSet and waits for the
\* SuperVersion lock
InstallerWaits(n) == tasks[n] = "appended" /\ SvLocked

\* C23: no interleaving of flush_memtable with a minor installer reaches a
\* state in which the flusher holds the SuperVersion lock and waits for the
\* lock of the VersionSet while an installer holds the lock of the VersionSet
\* and waits for the SuperVersion lock.
C23_NoDeadlock == ~(FlusherWaits /\ \E n \in SstNums : InstallerWaits(n))

\* the published SuperVersion holds the SST with number n
Published(n) ==
  \E meta \in VersionFiles(super_version.sst_version) : meta.number = n

\* C24: under fair scheduling and without I/O errors, every memtable that
\* flush_memtable has frozen is in the end off the list of frozen memtables
\* with its SST in the published Version, so that the list runs empty and
\* flush_wait_imemtables returns.
C24_FrozenIsFlushed ==
  \A n \in SstNums : Frozen(n) ~> (~Frozen(n) /\ Published(n))

\* the SuperVersions a reader can have: the one super_version() returns now
\* and the one returned to the reader before
Returned ==
  (IF Running /\ SuperVersionReturns THEN {super_version} ELSE {})
    \cup (IF held # NoSV THEN {held} ELSE {})

\* the memtables that were frozen before the SuperVersion sv was built: the
\* numbers below the number of its active memtable
FrozenBefore(sv) == {n \in SstNums : n < sv.cf_tables.memtable}

\* the frozen list of sv holds the memtable n
InList(sv, n) ==
  \E i \in 1..Len(sv.cf_tables.imemtables) : sv.cf_tables.imemtables[i] = n

\* the Version of sv holds the SST n
InVersion(sv, n) == \E meta \in VersionFiles(sv.sst_version) : meta.number = n

\* C25: in every SuperVersion that super_version() can return, each
\* memtable that was frozen is either in the frozen list or its SST is in
\* sst_version, never absent from both.
C25_FrozenOrInstalled ==
  \A sv \in Returned : \A n \in FrozenBefore(sv) : InList(sv, n) \/ InVersion(sv, n)

\* a reader holds a SuperVersion in which an installer has taken a memtable
\* off the frozen list while another memtable is still frozen
C25_Witness ==
  /\ held # NoSV
  /\ \E n \in FrozenBefore(held) : ~InList(held, n) /\ InVersion(held, n)
  /\ \E n \in FrozenBefore(held) : InList(held, n)

\* the runs of level 0 in the Version of the manifest
L0Runs == vs.version.sst_files[0]

\* no installer is inside add_sst_with
NoInstallUnderWay ==
  \A n \in SstNums : tasks[n] \in {"none", "queued", "written", "done"}

\* C26: every minor-compaction install puts its SST in a new run of level 0
\* that holds only that SST, also when several installs run at once on the
\* threads of the pool: once the installs have returned, no run is empty and
\* no run holds two files.
C26_OneRunPerFlush ==
  NoInstallUnderWay => \A i \in 1..Len(L0Runs) : Len(L0Runs[i].files) = 1

\* the versions of the key in the SSTs of the published Version
SstVersions(key) ==
  {e \in UNION {FileEntries(meta.number) :
                  meta \in VersionFiles(super_version.sst_version)} : e.k = key}

\* no memtable of the published SuperVersion holds the key
NotInMemtables(key) ==
  /\ \A e \in mem[tables.memtable] : e.k # key
  /\ \A n \in SstNums : Frozen(n) => \A e \in mem[n] : e.k # key

\* C27: when several SSTs of level 0 hold versions of a key and no memtable
\* holds it, get without a snapshot answers with the version of the greatest
\* sequence, also when the minor compactions of two frozen memtables install
\* in the opposite order to the order in which the memtables were frozen.
C27_NewestRunFirst ==
  (/\ lastGet.valid
   /\ lastGet.snap = NoSnap
   /\ NotInMemtables(lastGet.k)
   /\ SstVersions(lastGet.k) # {})
    => \E e \in SstVersions(lastGet.k) :
         /\ \A o \in SstVersions(lastGet.k) : o.seq <= e.seq
         /\ lastGet.res = Answer(e)

\* the records of the manifest log that are on disk
DurableLog == SubSeq(ManifestLog, 1, synced)

DurableEdits == {DurableLog[i] : i \in 1..Len(DurableLog)}

\* the NewRun records of a log
NewRunCount(log) == Cardinality({i \in 1..Len(log) : log[i].type = "NewRun"})

\* every file and every run of a Version has its record on disk
VersionDurable(version) ==
  /\ \A meta \in VersionFiles(version) : SSTAppended(meta) \in DurableEdits
  /\ Len(version.sst_files[0]) <= NewRunCount(DurableLog)

\* the SST number n was handed out by an allocation whose record is on disk
NumberDurable(n) == n > 1 => SSTSequenceChanged(n) \in DurableEdits

\* C28: for every manifest edit, the record is appended to the log and synced
\* before a reader can obtain a Version or a SuperVersion that reflects the
\* edit: the Version Manifest::current hands out when the lock of the
\* VersionSet is free, and every SuperVersion a reader can have.  The edits
\* are those of allocate_sst_number and add_sst_with; modify_with, the one
\* source of SSTRemove, has no caller that runs (pick_compaction_info in
\* compaction/major.rs returns None).
C28_DurableBeforeVisible ==
  /\ ~VsLocked => VersionDurable(vs.version) /\ NumberDurable(vs.last_sst_num)
  /\ \A sv \in Returned \cup {super_version} :
       /\ VersionDurable(sv.sst_version)
       /\ NumberDurable(sv.cf_tables.memtable + 1)

\* a reader holds a SuperVersion with an SST while another installer has
\* appended a record that is not synced yet
C28_Witness ==
  /\ held # NoSV
  /\ VersionFiles(held.sst_version) # {}
  /\ held.cf_tables.memtable > 0
  /\ synced < Len(ManifestLog)

RECURSIVE InOrder(_, _)
\* the edits of a are met in the log in the order they have in a
InOrder(a, log) ==
  IF a = << >> THEN TRUE
  ELSE IF log = << >> THEN FALSE
  ELSE IF Head(a) = Head(log) THEN InOrder(Tail(a), Tail(log))
  ELSE InOrder(a, Tail(log))

\* C29: for any interleaving of add_sst_with and allocate_sst_number calls,
\* the order in which the edits are applied to the VersionSet in memory is
\* the order of their records in the manifest log.
C29_AppliedInLogOrder == status = "up" => InOrder(applied, ManifestLog)

\* the installs that have added their NewRun and have not failed
RunOwners ==
  {n \in SstNums : tasks[n] \in {"newrun", "sa_appended", "sa_synced", "appended", "done"}}

\* C30: when the append or the sync of an edit fails during add_sst_with,
\* also for an edit that is not the first one of the call, the VersionSet
\* holds what it held before the call: no run of level 0 is left of an
\* install that failed, so every run belongs to an install that has not.
C30_FailureLeavesNoTrace == Len(L0Runs) <= Cardinality(RunOwners)

\* ------------------------------------- a Version under edit, call by call

\* the runs a level may hold
MaxRuns == 2

\* the FileMetaData of an SST of level `level` with the keys min..max
EditMeta(number, min, max, level) ==
  [number |-> number, min |-> min, max |-> max, min_ver |-> 0, max_ver |-> 0,
   keys |-> max - min + 1, level |-> level]

\* the files a Version under edit may have held
MaxEditFiles == 2

EditNums == 0..(MaxEditFiles - 1)

EditMetas ==
  {EditMeta(number, min, max, level) :
     number \in EditNums, min \in Keys, max \in Keys, level \in Levels}

\* history: a call of VersionSet::add or of the serializer, and the Version
\* it was made on
EditCall(op, number) ==
  [op |-> op, number |-> number, before |-> editor.version,
   was |-> FILE_STATE_USING, ok |-> TRUE]

\* history: a call on a FileStatistics, and the state it was made on
StateCall(op, number) ==
  [op |-> op, number |-> number, before |-> VersionDefault,
   was |-> editor.state[number], ok |-> TRUE]

\* VersionSet::add of NewRun(level)
EditNewRun(level) ==
  /\ status = "up"
  /\ Len(editor.version.sst_files[level]) < MaxRuns
  /\ editor' = [editor EXCEPT
       !.version = VersionSetAdd([VersionSetDefault EXCEPT !.version = editor.version],
                                 NewRun(level)).version,
       !.checkpoint = VersionDefault,
       !.last = EditCall("NewRun", 0)]
  /\ UNCHANGED <<status, no_wal, wal_current, wal_log, mem, super_version,
                 step_version, panicked, vs, manifest_seq, manifest_log,
                 manifest_files, current, sst, tasks, wr, held,
                 user_snapshot, lastGet, lastScan, acked, last_batch,
                 allocated, installed, raced, snap_view, held_view, rot,
                 restarts, seg_file, log_lock, writer, appended, flipped,
                 replayer, codec, lookup, flusher, reader, synced, applied,
                 major>>

\* VersionSet::add of SSTAppended(meta) for a file whose number was allocated
\* for it: FileStatistics::new makes its state Using
EditSSTAppended(meta) ==
  /\ status = "up"
  /\ meta.min <= meta.max
  /\ meta.number \notin editor.created
  /\ editor' = [editor EXCEPT
       !.version = VersionSetAdd([VersionSetDefault EXCEPT !.version = editor.version],
                                 SSTAppended(meta)).version,
       !.created = @ \cup {meta.number},
       !.state[meta.number] = FILE_STATE_USING,
       !.checkpoint = VersionDefault,
       !.last = EditCall("SSTAppended", meta.number)]
  /\ UNCHANGED <<status, no_wal, wal_current, wal_log, mem, super_version,
                 step_version, panicked, vs, manifest_seq, manifest_log,
                 manifest_files, current, sst, tasks, wr, held,
                 user_snapshot, lastGet, lastScan, acked, last_batch,
                 allocated, installed, raced, snap_view, held_view, rot,
                 restarts, seg_file, log_lock, writer, appended, flipped,
                 replayer, codec, lookup, flusher, reader, synced, applied,
                 major>>

\* VersionSet::add of SSTRemove(number), built with either loop of
\* binary_search_by; add returns None when no run answers Ok
EditSSTRemove(number, std) ==
  LET next == VersionSetAdd([VersionSetDefault EXCEPT !.version = editor.version],
                            SSTRemove(number, std)).version
  IN  /\ status = "up"
      /\ editor' = [editor EXCEPT
           !.version = next,
           !.checkpoint = VersionDefault,
           !.last = [EditCall("SSTRemove", number) EXCEPT
                       !.ok = (next # editor.version)]]
      /\ UNCHANGED <<status, no_wal, wal_current, wal_log, mem,
                     super_version, step_version, panicked, vs, manifest_seq,
                     manifest_log, manifest_files, current, sst, tasks, wr,
                     held, user_snapshot, lastGet, lastScan, acked,
                     last_batch, allocated, installed, raced, snap_view,
                     held_view, rot, restarts, seg_file, log_lock, writer,
                     appended, flipped, replayer, codec, lookup, flusher,
                     reader, synced, applied, major>>

\* Manifest::rotate writes the Version as a Snapshot edit and
\* restore_from_wal reads it back: VersionLogSerializer::write and read
EditSnapshot ==
  /\ status = "up"
  /\ editor' = [editor EXCEPT
       !.checkpoint = VersionLogRead(Snapshot(editor.version).files),
       !.last = EditCall("Snapshot", 0)]
  /\ UNCHANGED <<status, no_wal, wal_current, wal_log, mem, super_version,
                 step_version, panicked, vs, manifest_seq, manifest_log,
                 manifest_files, current, sst, tasks, wr, held,
                 user_snapshot, lastGet, lastScan, acked, last_batch,
                 allocated, installed, raced, snap_view, held_view, rot,
                 restarts, seg_file, log_lock, writer, appended, flipped,
                 replayer, codec, lookup, flusher, reader, synced, applied,
                 major>>

\* FileStatistics::set_picked on a file that was made
EditSetPicked(number) ==
  /\ status = "up"
  /\ number \in editor.created
  /\ editor' = [editor EXCEPT
       !.state[number] = set_picked(@),
       !.checkpoint = VersionDefault,
       !.last = [StateCall("set_picked", number) EXCEPT
                   !.ok = (editor.state[number] = FILE_STATE_USING)]]
  /\ UNCHANGED <<status, no_wal, wal_current, wal_log, mem, super_version,
                 step_version, panicked, vs, manifest_seq, manifest_log,
                 manifest_files, current, sst, tasks, wr, held,
                 user_snapshot, lastGet, lastScan, acked, last_batch,
                 allocated, installed, raced, snap_view, held_view, rot,
                 restarts, seg_file, log_lock, writer, appended, flipped,
                 replayer, codec, lookup, flusher, reader, synced, applied,
                 major>>

\* FileStatistics::set_deprecated on a file that was made
EditSetDeprecated(number) ==
  /\ status = "up"
  /\ number \in editor.created
  /\ editor' = [editor EXCEPT
       !.state[number] = set_deprecated(@),
       !.checkpoint = VersionDefault,
       !.last = [StateCall("set_deprecated", number) EXCEPT
                   !.ok = (editor.state[number] = FILE_STATE_PICKED)]]
  /\ UNCHANGED <<status, no_wal, wal_current, wal_log, mem, super_version,
                 step_version, panicked, vs, manifest_seq, manifest_log,
                 manifest_files, current, sst, tasks, wr, held,
                 user_snapshot, lastGet, lastScan, acked, last_batch,
                 allocated, installed, raced, snap_view, held_view, rot,
                 restarts, seg_file, log_lock, writer, appended, flipped,
                 replayer, codec, lookup, flusher, reader, synced, applied,
                 major>>

\* FileStatistics::set_using on a file that was made
EditSetUsing(number) ==
  /\ status = "up"
  /\ number \in editor.created
  /\ editor' = [editor EXCEPT
       !.state[number] = set_using(@),
       !.checkpoint = VersionDefault,
       !.last = StateCall("set_using", number)]
  /\ UNCHANGED <<status, no_wal, wal_current, wal_log, mem, super_version,
                 step_version, panicked, vs, manifest_seq, manifest_log,
                 manifest_files, current, sst, tasks, wr, held,
                 user_snapshot, lastGet, lastScan, acked, last_batch,
                 allocated, installed, raced, snap_view, held_view, rot,
                 restarts, seg_file, log_lock, writer, appended, flipped,
                 replayer, codec, lookup, flusher, reader, synced, applied,
                 major>>

\* edits of a Version, checkpoints of it and calls on the state of its files
NextVersion ==
  \/ \E level \in Levels : EditNewRun(level)
  \/ \E meta \in EditMetas : EditSSTAppended(meta)
  \/ \E number \in EditNums, std \in StdLoops : EditSSTRemove(number, std)
  \/ EditSnapshot
  \/ \E number \in EditNums : EditSetPicked(number)
  \/ \E number \in EditNums : EditSetDeprecated(number)
  \/ \E number \in EditNums : EditSetUsing(number)

SpecVersion == Init /\ [][NextVersion]_vars

\* ------------------------------------------------------- major compaction

\* the file numbers a Version holds at a level, run by run
LevelNumbers(version, level) ==
  LET files == Flatten([r \in 1..Len(version.sst_files[level]) |->
                          version.sst_files[level][r].files])
  IN  [i \in 1..Len(files) |-> files[i].number]

RECURSIVE SubSeqs(_)
\* the subsequences of a sequence
SubSeqs(s) ==
  IF s = << >> THEN {<< >>}
  ELSE LET rest == SubSeqs(Tail(s))
       IN  rest \cup {<<Head(s)>> \o t : t \in rest}

\* RawSSTReader::raw_scan: every entry of the file through EqualFilter
raw_scan(file) == EqualFilter(file)

\* major_compaction, the iterator it hands to the writer: MergedIter over the
\* raw_scan of every input, compact_bottom first
MajorIter(files, info) ==
  LET removal == info.compact_bottom \o info.compact_top
  IN  MergedIter([i \in 1..Len(removal) |-> raw_scan(files[removal[i]])])

\* the edits the installer of the major pool hands to Manifest::modify_with
MajorEdits(std) ==
  <<SSTAppended(FileMetaData(major.number, sst[major.number], major.level_top))>>
    \o [i \in 1..Len(major.compact_bottom \o major.compact_top) |->
          SSTRemove((major.compact_bottom \o major.compact_top)[i], std)]

\* a CompactInfo is made for files of the published Version: files of level
\* 0 to compact into level 1 together with files of level 1, and a number
\* from Manifest::allocate_sst_number for the output
MajorPick(bottom, top) ==
  LET edit == SSTSequenceChanged(vs.last_sst_num + 1)
  IN  /\ Serving
      /\ major.pc = "idle"
      /\ bottom # << >>
      /\ vs.last_sst_num < MaxSstNum
      /\ major' = [pc |-> "picked", compact_bottom |-> bottom, compact_top |-> top,
                   level_top |-> 1, number |-> vs.last_sst_num]
      /\ manifest_log' = Commit(manifest_log, edit)
      /\ vs' = VersionSetAdd(vs, edit)
      /\ ResetReads
      /\ UNCHANGED <<status, no_wal, wal_current, wal_log, mem,
                     super_version, step_version, panicked, manifest_seq,
                     manifest_files, current, sst, tasks, wr, held,
                     user_snapshot, acked, last_batch, allocated, installed,
                     raced, snap_view, held_view, rot, restarts, seg_file,
                     log_lock, writer, appended, flipped, replayer, codec,
                     lookup, flusher, reader, synced, applied, editor>>

\* major_compaction up to the call of the installer: the inputs are merged
\* into the SST file with the number of the CompactInfo
MajorWrite ==
  /\ Running
  /\ major.pc = "picked"
  /\ sst' = [sst EXCEPT ![major.number] = MajorIter(sst, major)]
  /\ major' = [major EXCEPT !.pc = "written"]
  /\ ResetReads
  /\ UNCHANGED <<status, no_wal, wal_current, wal_log, mem, super_version,
                 step_version, panicked, vs, manifest_seq, manifest_log,
                 manifest_files, current, tasks, wr, held, user_snapshot,
                 acked, last_batch, allocated, installed, raced, snap_view,
                 held_view, rot, restarts, seg_file, log_lock, writer,
                 appended, flipped, replayer, codec, lookup, flusher, reader,
                 synced, applied, editor>>

\* RawSSTWriter::write returns Err after it has written some of the entries:
\* major_compaction warns and returns
MajorWriteFail ==
  /\ Running
  /\ major.pc = "picked"
  /\ \E len \in 0..(Len(MajorIter(sst, major)) - 1) :
       sst' = [sst EXCEPT ![major.number] = SubSeq(MajorIter(sst, major), 1, len)]
  /\ major' = [major EXCEPT !.pc = "write_failed"]
  /\ ResetReads
  /\ UNCHANGED <<status, no_wal, wal_current, wal_log, mem, super_version,
                 step_version, panicked, vs, manifest_seq, manifest_log,
                 manifest_files, current, tasks, wr, held, user_snapshot,
                 acked, last_batch, allocated, installed, raced, snap_view,
                 held_view, rot, restarts, seg_file, log_lock, writer,
                 appended, flipped, replayer, codec, lookup, flusher, reader,
                 synced, applied, editor>>

\* minor_compaction when RawSSTWriter::write returns Err and the installer is
\* called all the same, with no Version to store
MinorWriteFailInstall(n) ==
  /\ Running
  /\ tasks[n] = "queued"
  /\ Cardinality(Busy) < MinorThreads
  /\ \E len \in 0..(Len(SortEntries(mem[n])) - 1) :
       sst' = [sst EXCEPT ![n] = SubSeq(SortEntries(mem[n]), 1, len)]
  /\ step_version' = step_version + 1
  /\ super_version' =
       InstallerSuperVersionStale(super_version, n, super_version.sst_version)
  /\ tasks' = [tasks EXCEPT ![n] = "write_failed"]
  /\ ResetReads
  /\ UNCHANGED <<status, no_wal, wal_current, wal_log, mem, panicked, vs,
                 manifest_seq, manifest_log, manifest_files, current, wr,
                 held, user_snapshot, acked, last_batch, allocated,
                 installed, raced, snap_view, held_view, rot, restarts,
                 seg_file, log_lock, writer, appended, flipped, replayer,
                 codec, lookup, flusher, reader, synced, applied, editor,
                 major>>

\* minor_compaction when RawSSTWriter::write returns Err after it has written
\* some of the entries: the thread warns and returns without calling f
MinorWriteFail(n) ==
  /\ Running
  /\ tasks[n] = "queued"
  /\ Cardinality(Busy) < MinorThreads
  /\ \E len \in 0..(Len(SortEntries(mem[n])) - 1) :
       sst' = [sst EXCEPT ![n] = SubSeq(SortEntries(mem[n]), 1, len)]
  /\ tasks' = [tasks EXCEPT ![n] = "write_failed"]
  /\ ResetReads
  /\ UNCHANGED <<status, no_wal, wal_current, wal_log, mem, super_version,
                 step_version, panicked, vs, manifest_seq, manifest_log,
                 manifest_files, current, wr, held, user_snapshot, acked,
                 last_batch, allocated, installed, raced, snap_view,
                 held_view, rot, restarts, seg_file, log_lock, writer,
                 appended, flipped, replayer, codec, lookup, flusher, reader,
                 synced, applied, editor, major>>

\* the installer of the major pool: Manifest::modify_with takes the lock of
\* the VersionSet, appends and adds every edit, syncs, and calls f, which
\* stores the next SuperVersion with vs.current()
MajorInstall(std) ==
  LET edits == MajorEdits(std)
      sv    == super_version
  IN  /\ Running
      /\ major.pc = "written"
      /\ manifest_log' = [manifest_log EXCEPT ![manifest_seq] = @ \o edits]
      /\ vs' = ReplayFrom(vs, edits)
      /\ step_version' = step_version + 1
      /\ IF step_version = sv.step_version
         THEN /\ super_version' = [cf_tables |-> sv.cf_tables,
                                   sst_version |-> vs'.version,
                                   step_version |-> sv.step_version + 1]
              /\ panicked' = panicked
         ELSE /\ super_version' = super_version
              /\ panicked' = TRUE
      /\ major' = [major EXCEPT !.pc = "done"]
      /\ ResetReads
      /\ UNCHANGED <<status, no_wal, wal_current, wal_log, mem, manifest_seq,
                     manifest_files, current, sst, tasks, wr, held,
                     user_snapshot, acked, last_batch, allocated, installed,
                     raced, snap_view, held_view, rot, restarts, seg_file,
                     log_lock, writer, appended, flipped, replayer, codec,
                     lookup, flusher, reader, synced, applied, editor>>

\* the process dies inside Manifest::modify_with when done of the edits have
\* been appended to the log; the files stay as they are
MajorCrash(std, done) ==
  /\ Running
  /\ major.pc = "written"
  /\ restarts < MaxRestarts
  /\ done < Len(MajorEdits(std))
  /\ manifest_log' = [manifest_log EXCEPT ![manifest_seq] =
                        @ \o SubSeq(MajorEdits(std), 1, done)]
  /\ major' = [major EXCEPT !.pc = "crashed"]
  /\ status' = "down"
  /\ restarts' = restarts + 1
  /\ LoseMemory
  /\ ResetReads
  /\ UNCHANGED <<no_wal, wal_current, wal_log, manifest_files, current, sst,
                 acked, last_batch, allocated, installed, raced, seg_file,
                 log_lock, writer, appended, flipped, replayer, codec,
                 lookup, flusher, reader, synced, applied, editor>>

\* Storage::new on the directory the process left
Start ==
  \/ StartManifest
  \/ StartRestore
  \/ StartStorage

Major ==
  \/ \E bottom \in SubSeqs(LevelNumbers(super_version.sst_version, 0)) :
       \E top \in SubSeqs(LevelNumbers(super_version.sst_version, 1)) :
          MajorPick(bottom, top)
  \/ MajorWrite
  \/ MajorWriteFail
  \/ \E std \in StdLoops : MajorInstall(std)
  \/ \E std \in StdLoops : \E done \in 1..MaxSstNum : MajorCrash(std, done)

\* writers, a user snapshot, point reads, flushes, the minor pool, one task
\* of the major pool, writes of an SST that fail, a crash inside the installer
\* of the major pool, and the restart
NextMajor ==
  \/ Write
  \/ Minor
  \/ \E n \in SstNums : MinorWriteFail(n)
  \/ TakeSnapshot
  \/ \E key \in Keys : Get(key, NoSnap)
  \/ Major
  \/ Start

SpecMajor == Init /\ [][NextMajor]_vars

\* ------------------------------------------------------- claims C31..C40

\* the files a major compaction takes as its inputs
MajorInputs ==
  {(major.compact_bottom \o major.compact_top)[i] :
     i \in 1..Len(major.compact_bottom \o major.compact_top)}

\* a Version holds a file with this number
Holds(version, number) == SeqMapGet(version, number) # NoFile

\* a Version reflects part of the batch of the major compaction: the output
\* with an input, or an input gone without the output
PartOfBatch(version) ==
  LET ins == {n \in MajorInputs : Holds(version, n)}
  IN  IF Holds(version, major.number) THEN ins # {} ELSE ins # MajorInputs

\* C31: the edits [SSTAppended..., SSTRemove...] of a major compaction take
\* effect together or not at all: neither the Version of the VersionSet, as
\* the engine holds it or as a restart after a crash rebuilds it from the
\* log, nor the Version of the published SuperVersion holds the output next
\* to an input, or lacks an input without holding the output.
C31_BatchedEditAtomic ==
  major.pc \in {"written", "done", "crashed"} =>
    /\ status \in {"restored", "up"} => ~PartOfBatch(vs.version)
    /\ status = "up" => ~PartOfBatch(super_version.sst_version)

\* the files of a Version by level and run, empty runs included
RunFiles(version) ==
  [l \in StoredLevels |->
     [i \in 1..Len(version.sst_files[l]) |-> version.sst_files[l][i].files]]

\* the runs of one level with the file of this number taken out, and the run
\* that held it dropped when it is left empty
RunsWithout(runs, number) ==
  LET hit == {i \in 1..Len(runs) : \E j \in 1..Len(runs[i]) : runs[i][j].number = number}
  IN  IF hit = {} THEN runs
      ELSE LET i    == CHOOSE x \in hit : TRUE
               left == SelectSeq(runs[i], LAMBDA f : f.number # number)
           IN  IF left = << >> THEN RemoveAt(runs, i) ELSE [runs EXCEPT ![i] = left]

\* C32: VersionSet::add of SSTRemove(number) on a Version that holds the file
\* takes exactly that file out of its run and out of the map by number,
\* leaves every other file where it was and drops the run when it is left
\* empty, however many files the run holds and whatever their numbers are; on
\* a Version that does not hold the number it changes nothing.
C32_RemoveTakesExactlyTheFile ==
  editor.last.op = "SSTRemove" =>
    /\ RunFiles(editor.version) =
         [l \in StoredLevels |->
            RunsWithout(RunFiles(editor.last.before)[l], editor.last.number)]
    /\ ~Holds(editor.version, editor.last.number)

\* the state changes a FileStatistics may make
FileStateSteps ==
  {<<FILE_STATE_USING, FILE_STATE_PICKED>>,
   <<FILE_STATE_PICKED, FILE_STATE_DEPRECATED>>,
   <<FILE_STATE_PICKED, FILE_STATE_USING>>}

\* C37: whatever calls of set_picked, set_deprecated and set_using are made
\* on a file, its state changes only from Using to Picked, from Picked to
\* Deprecated and from Picked to Using; set_picked answers true exactly on a
\* Using file and set_deprecated exactly on a Picked file; a Deprecated file
\* stays Deprecated.
C37_FileStateMachine ==
  editor.last.op \in {"set_picked", "set_deprecated", "set_using"} =>
    LET was == editor.last.was
        now == editor.state[editor.last.number]
    IN  /\ was = now \/ <<was, now>> \in FileStateSteps
        /\ was = FILE_STATE_DEPRECATED => now = FILE_STATE_DEPRECATED
        /\ editor.last.op = "set_picked" =>
             (editor.last.ok <=> was = FILE_STATE_USING /\ now = FILE_STATE_PICKED)
        /\ editor.last.op = "set_deprecated" =>
             (editor.last.ok <=> was = FILE_STATE_PICKED /\ now = FILE_STATE_DEPRECATED)

\* the files of every run are in key order and disjoint
DisjointRuns(version) ==
  \A l \in StoredLevels : \A r \in 1..Len(version.sst_files[l]) :
    LET files == version.sst_files[l][r].files
    IN  \A i \in 1..(Len(files) - 1) : files[i].max < files[i + 1].min

\* C38: a Version whose runs hold files of disjoint ranges, written as a
\* Snapshot edit by VersionLogSerializer and read back, has the same
\* FileMetaData in the same runs at the same levels, also when a run holds
\* several files and when level 0 holds several runs that overlap.
C38_CheckpointRoundTrip ==
  editor.last.op = "Snapshot" /\ DisjointRuns(editor.last.before) =>
    FileRuns(editor.checkpoint) = FileRuns(editor.last.before)

\* C33: sequence numbers are never handed out twice, also across a crash and
\* restart: two acknowledged mutations never carry the same sequence, and a
\* mutation written in a later run of the engine carries a greater sequence
\* than every mutation written in an earlier run.
C33_SequencesMonotonic ==
  \A a \in acked : \A b \in acked :
    /\ a.epoch < b.epoch => a.seq < b.seq
    /\ a.epoch = b.epoch /\ a # b => a.seq # b.seq

\* the numbers Manifest::allocate_sst_number has returned, one for each
\* SSTSequenceChanged record it committed, by log and position
Reservations ==
  {<<m, i>> \in ManNums \X (1..(MaxSstNum + MaxRestarts + 1)) :
     /\ i <= Len(manifest_log[m])
     /\ manifest_log[m][i].type = "SSTSequenceChanged"}

\* C34: allocate_sst_number never returns a number twice, also across
\* restarts, so no two SSTSequenceChanged records it logged reserve the same
\* number; and the number of the active memtable is never the number of an
\* SST in the Version.
C34_SstNumbersUnique ==
  /\ \A p \in Reservations : \A q \in Reservations \ {p} :
       manifest_log[p[1]][p[2]].n # manifest_log[q[1]][q[2]].n
  /\ status = "up" =>
       \A meta \in VersionFiles(vs.version) : meta.number # tables.memtable

\* Storage::set_batch returns Ok in this step
SetBatchReturns ==
  /\ wr.pc = "loaded"
  /\ wr'.pc = "idle"
  /\ status' = "up"
  /\ no_wal \/ wal_current # "None"
  /\ ~panicked'

\* the last mutation of the key in the batch the writer holds
LastOfBatch(key) ==
  wr.batch[CHOOSE i \in 1..Len(wr.batch) :
             /\ wr.batch[i].k = key
             /\ \A j \in (i + 1)..Len(wr.batch) : wr.batch[j].k # key]

\* C35: when Storage::set_batch returns base, the memtable that is the active
\* one holds the i-th mutation of the batch under sequence base+i, and a get
\* of a key of the batch made right then answers with the last mutation of
\* that key in the batch.
C35_SetBatchInsertsInOrder ==
  [][SetBatchReturns =>
       /\ wr.memtable = tables.memtable
       /\ \A e \in Acknowledged : Entry(e) \in mem'[wr.memtable]
       /\ \A i \in 1..Len(wr.batch) :
            SuperVersionReturns' =>
              get_ex(mem', sst', super_version', wr.batch[i].k, NoSnap, vs'.last_seq)
                = Answer(LastOfBatch(wr.batch[i].k))]_vars

\* the snapshots a get may be made under: none, or the one the user holds
LiveSnapshots == {NoSnap, user_snapshot}

\* C36: the install of a major compaction changes the answer of no get: for
\* every key, under the snapshot the user holds and under none, get answers
\* after the SuperVersion of the compaction is published what it answered
\* before.
C36_MajorPreservesReads ==
  [][major.pc = "written" /\ major'.pc = "done" /\ ~panicked' =>
       \A key \in Keys : \A snap \in LiveSnapshots :
          get_ex(mem', sst', super_version', key, snap, vs'.last_seq)
            = get_ex(mem, sst, super_version, key, snap, vs.last_seq)]_vars

\* what every get answers, under the snapshot the user holds and under none
Readable(memNow, files, sv, seq, snaps) ==
  [key \in Keys |-> [snap \in snaps |-> get_ex(memNow, files, sv, key, snap, seq)]]

\* nothing but the task and the file it was writing changes in this step
FailureStep ==
  /\ manifest_log' = manifest_log
  /\ vs' = vs
  /\ super_version' = super_version
  /\ step_version' = step_version
  /\ mem' = mem
  /\ Serving' = Serving
  /\ Readable(mem', sst', super_version', vs'.last_seq, LiveSnapshots)
       = Readable(mem, sst, super_version, vs.last_seq, LiveSnapshots)

\* C39: a compaction whose write of the output SST fails emits no manifest
\* edit and installs no SuperVersion: the step changes neither the log, the
\* VersionSet, the SuperVersion nor the answer of any get, and the engine
\* serves calls as before; from then on the memtable of a failed minor
\* compaction is in the frozen list and its SST is in no Version, and the
\* inputs of a failed major compaction stay in the Version.
C39_WriteFailureChangesNothing ==
  [][/\ \A n \in SstNums :
          tasks'[n] = "write_failed" =>
            /\ InList(super_version', n)
            /\ ~Holds(vs'.version, n)
            /\ ~InVersion(super_version', n)
            /\ tasks[n] = "queued" => FailureStep
     /\ major'.pc = "write_failed" =>
          /\ \A n \in MajorInputs' :
                Holds(vs'.version, n) /\ InVersion(super_version', n)
          /\ ~Holds(vs'.version, major'.number)
          /\ major.pc = "picked" => FailureStep]_vars

\* the minor compaction of a memtable has failed, the memtable is frozen,
\* and a get that was made afterwards has answered with a value from it
C39_Witness ==
  /\ lastGet.valid
  /\ lastGet.res # KeyNotExist
  /\ \E n \in SstNums :
       /\ tasks[n] = "write_failed"
       /\ InList(super_version, n)
       /\ \E e \in mem[n] : e.k = lastGet.k /\ ~e.del /\ e.v = lastGet.res
  /\ mem[tables.memtable] = {}
  /\ VersionFiles(super_version.sst_version) = {}

\* how many of the edits applied so far yield the Version, counted from the
\* first edit: every count that does
Positions(version, edits) ==
  {k \in 0..Len(edits) : Replay(SubSeq(edits, 1, k)).version = version}

\* the Version `new` holds every edit the Version `old` holds
NotOlder(new, old, edits) ==
  \E i \in Positions(old, edits) : \E j \in Positions(new, edits) : i <= j

\* C40: the Version of a SuperVersion that is published is never older than
\* the Version of the SuperVersion published before it: it is the VersionSet
\* after at least as many of the edits applied, whatever the interleaving of
\* flush_memtable and the installers of the pool threads.
C40_VersionNeverRegresses ==
  [][/\ status = "up"
     /\ status' = "up"
     /\ super_version'.sst_version # super_version.sst_version
     => NotOlder(super_version'.sst_version, super_version.sst_version,
                 applied')]_vars

\* a reader holds a SuperVersion with an SST, and after it a flush and an
\* install have each published a SuperVersion, the last with one SST more
C40_Witness ==
  /\ held # NoSV
  /\ VersionFiles(held.sst_version) # {}
  /\ held.cf_tables.memtable < tables.memtable
  /\ VersionFiles(held.sst_version) # VersionFiles(super_version.sst_version)
  /\ VersionFiles(held.sst_version) \subseteq VersionFiles(super_version.sst_version)

=============================================================================
